---- MODULE Spec2Model ----
(***************************************************************************)
(* The evaluation pipeline of cv-evaluator-workflow: one evaluation job,   *)
(* its Job Store record, the BullMQ delivery of its descriptor and the     *)
(* worker run (EvaluationProcessor.process) that drives the five stages    *)
(* of EvaluationService.                                                   *)
(*                                                                         *)
(* Numbers with a fractional part are kept as integers: a detection        *)
(* confidence c stands for c/100 (30 is 0.30).                             *)
(***************************************************************************)
EXTENDS Integers, Sequences, FiniteSets, TLC

VARIABLES
    job,          \* the EvaluationJob record of the Job Store
    docs,         \* cv / project Document records: is parsed_content cached
    queue,        \* BullMQ state of the job descriptor
    attemptsMade, \* deliveries of the descriptor started so far
    pc,           \* position of the worker run: [stage, step]
    err,          \* the error thrown inside the try block, Null when none
    detection,    \* the verdict returned by detectInjectionWithAI in this stage
    screening,    \* system / user prompt screening verdicts of this stage
    cvResult,     \* CVResult of this run, Null before evaluateCV returns
    projectResult,\* ProjectResult of this run
    summary,      \* synthesis of this run: the generated text, the text returned
    gen,          \* state of the running AIService.callWithRetry call
    now,          \* the clock read by new Date()
    trace,        \* commits and external calls of the current run, in order
    failedOnce,   \* the job has been committed failed at some time
    probe,        \* a service method called on its own: arguments and outcome
    parsed,       \* ParsedCV / ParsedProject returned by the last parsing stage
    retrieved,    \* the two vector store queries of the running evaluation stage
    escalations,  \* scoring calls of this run answered by the fallback model
    foundRecord   \* the record read by the findOne of the running updateJobProgress

vars == <<job, docs, queue, attemptsMade, pc, err, detection, screening,
          cvResult, projectResult, summary, gen, now, trace, failedOnce, probe,
          parsed, retrieved, escalations, foundRecord>>

Null == [null |-> TRUE]

(***************************************************************************)
(* Program constants                                                       *)
(***************************************************************************)
\* defaultJobOptions.attempts of EVALUATION_QUEUE_CONFIG
QueueAttempts == 3

\* maxRetries handed to callWithRetry by every generate* method
MaxRetries == 3

Severities == {"low", "medium", "high", "critical"}

\* confidences in hundredths, on both sides of the 0.30 and 0.60 thresholds
Confidences == {0, 29, 30, 59, 60, 90}

Sides == {"cv", "project"}

ParsingStage(side) == IF side = "cv" THEN "cv_parsing" ELSE "project_parsing"

EvaluationStage(side) == IF side = "cv" THEN "cv_evaluation" ELSE "project_evaluation"

\* the stage label process() commits before synthesizeResults
SynthesisLabel == "final_analysis"

(***************************************************************************)
(* Errors: message as the list of its words, code and HTTP status          *)
(***************************************************************************)
Includes(message, word) == \E i \in 1..Len(message) : message[i] = word

BadRequest(message) == [message |-> message, code |-> "", status |-> 400]

\* parseCV / parseProject: the error for a blocked file, reasons joined on
ScreeningBlockedError(side, reasons) ==
    IF side = "cv"
    THEN BadRequest(<<"CV", "blocked by security screening">> \o reasons)
    ELSE BadRequest(<<"Project", "report", "blocked by security screening">> \o reasons)

\* the decimal digits, for the numbers written into messages
Digits == <<"0", "1", "2", "3", "4", "5", "6", "7", "8", "9">>

\* confidence.toFixed(2), the confidence being held in hundredths
ToFixed2(c) ==
    Digits[(c \div 100) + 1] \o "." \o Digits[((c \div 10) % 10) + 1] \o Digits[(c % 10) + 1]

\* the length of the words joined by single blanks
RECURSIVE JoinedLength(_)
JoinedLength(words) ==
    IF words = <<>> THEN 0
    ELSE IF Len(words) = 1 THEN Len(words[1])
    ELSE Len(words[1]) + 1 + JoinedLength(Tail(words))

\* substring(0, limit) of the words joined by blanks: the words that end
\* within the limit stay; the word the limit cuts is left as a fragment,
\* which is no word of the message any more, and is left out
RECURSIVE Substring(_, _)
Substring(words, limit) ==
    IF words = <<>> \/ JoinedLength(words) <= limit THEN words
    ELSE Substring(SubSeq(words, 1, Len(words) - 1), limit)

\* createBlockedErrorMessage: the length the reason is cut to
ReasonLimit == 100

\* InjectionDetectionHelper.createBlockedErrorMessage
createBlockedErrorMessage(side, d) ==
    (IF side = "cv" THEN <<"CV">> ELSE <<"Project", "Report">>)
        \o <<"contains prohibited manipulation attempts", "(" \o d.severity,
              "severity, confidence:", ToFixed2(d.confidence) \o "):">>
        \o Substring(d.reason, ReasonLimit)

\* evaluateCV / evaluateProject / synthesizeResults: the error for blocked
\* prompts, reasons joined on
PromptsBlockedError(stage, reasons) ==
    IF stage = "synthesis"
    THEN BadRequest(<<"Synthesis", "prompts", "blocked by security screening">> \o reasons)
    ELSE BadRequest(<<"Prompts", "blocked by security screening">> \o reasons)

\* errors of the providers (OCR, vector store, embedding, language model)
RateLimitError == [message |-> <<"Too Many Requests">>, code |-> "", status |-> 429]

TimeoutError == [message |-> <<"Request", "timeout">>, code |-> "ETIMEDOUT", status |-> 0]

AuthError == [message |-> <<"API key not valid">>, code |-> "", status |-> 401]

NoObjectError == [message |-> <<"No object generated", "response did not match schema">>,
                  code |-> "", status |-> 0]

EmptyResponseError == [message |-> <<"Model returned empty response">>, code |-> "", status |-> 0]

FallbackEmptyError == [message |-> <<"Fallback model also returned empty response">>,
                       code |-> "", status |-> 0]

RetryEmptyError == [message |-> <<"Retry also returned empty response">>,
                    code |-> "", status |-> 0]

\* the test of the catch block around the first generateObject request: the
\* second request is made for these errors only
Escalates(error) ==
    \/ Includes(error.message, "No object generated")
    \/ Includes(error.message, "did not return")

\* parsePDF: both OCR requests were rejected; cause is the message of the
\* second rejection, or of the first, or 'Unable to process PDF'
OcrError(cause) ==
    BadRequest(<<"Mistral OCR failed:">>
               \o (IF cause # <<>> THEN cause ELSE <<"Unable to process PDF">>)
               \o <<"Please ensure your PDF is valid and accessible.">>)

\* parsePDF: the OCR client was never built (no MISTRAL_API_KEY)
OcrUnavailableError ==
    BadRequest(<<"OCR service is not available. Please configure MISTRAL_API_KEY.">>)

\* parsePDF: the response holds fewer than ten characters of text
InsufficientTextError ==
    BadRequest(<<"PDF processing returned insufficient text",
                 "The OCR response structure may be different than expected.",
                 "Please check server logs for the actual response structure.">>)

\* fs.readFile rejects: the file is no longer where the document says
ReadFileError ==
    [message |-> <<"ENOENT: no such file or directory">>, code |-> "ENOENT", status |-> 0]

\* parsePDF: what its outer catch block throws for the error it caught; the
\* errors of status 400 thrown inside its try block are the
\* BadRequestExceptions it builds itself, which it throws on as they are
ParseFailure(error) ==
    IF error.status = 400 THEN error
    ELSE IF error.status \in {401, 403}
    THEN BadRequest(<<"Invalid Mistral API key. Please check your MISTRAL_API_KEY configuration.">>)
    ELSE IF error.status = 429
    THEN BadRequest(<<"Mistral API rate limit exceeded. Please try again later.">>)
    ELSE BadRequest(<<"Failed to parse PDF:">>
                    \o (IF error.message # <<>> THEN error.message
                        ELSE <<"Unknown error occurred">>))

\* the messages the OCR provider rejects a request with
OcrCauses ==
    {<<"Service unavailable">>,
     <<"Project", "quota exceeded">>,
     <<"CV", ".pdf could not be fetched">>}

\* what a call of parsePDF meets: a text, no client, a file that cannot be
\* read, two rejected OCR requests, a response with too little text
OcrOutcomes ==
    {[kind |-> "text"], [kind |-> "noClient"], [kind |-> "readFailed"],
     [kind |-> "shortText"]}
        \cup {[kind |-> "rejected", cause |-> cause] : cause \in OcrCauses}

\* DocumentsService.parsePDF: the error it throws, Null when it returns the
\* parsed content
parsePDF(outcome) ==
    IF outcome.kind = "text" THEN Null
    ELSE IF outcome.kind = "noClient" THEN ParseFailure(OcrUnavailableError)
    ELSE IF outcome.kind = "readFailed" THEN ParseFailure(ReadFileError)
    ELSE IF outcome.kind = "rejected" THEN ParseFailure(OcrError(outcome.cause))
    ELSE ParseFailure(InsufficientTextError)

PineconeError == [message |-> <<"Pinecone", "query failed">>, code |-> "", status |-> 0]

ProviderErrors == {RateLimitError, TimeoutError, AuthError}


StoreError == [message |-> <<"connection", "closed">>, code |-> "", status |-> 0]

\* one error for each way isRetryableError can classify, and two it rejects
ServerError == [message |-> <<"Internal Server Error">>, code |-> "", status |-> 500]

UnavailableError == [message |-> <<"Service Unavailable">>, code |-> "", status |-> 503]

ConnResetError == [message |-> <<"read", "ECONNRESET">>, code |-> "ECONNRESET", status |-> 0]

DnsError == [message |-> <<"getaddrinfo", "ENOTFOUND">>, code |-> "ENOTFOUND", status |-> 0]

TimeoutMessageError == [message |-> <<"socket", "timeout">>, code |-> "", status |-> 0]

NetworkMessageError == [message |-> <<"network", "unreachable">>, code |-> "", status |-> 0]

MalformedRequestError == [message |-> <<"Invalid argument">>, code |-> "", status |-> 400]

\* errors the function wrapped by callWithRetry may throw
FnErrors ==
    {RateLimitError, ServerError, UnavailableError, TimeoutError, ConnResetError,
     DnsError, TimeoutMessageError, NetworkMessageError, AuthError,
     MalformedRequestError, NoObjectError}

\* isRetryableError that takes every error for a transient one
isRetryableError_always(error) == TRUE

\* AIService.isRetryableError
isRetryableError(error) ==
    \/ error.status = 429
    \/ error.status = 500
    \/ error.status = 503
    \/ error.code = "ETIMEDOUT"
    \/ error.code = "ECONNRESET"
    \/ error.code = "ENOTFOUND"
    \/ Includes(error.message, "timeout")
    \/ Includes(error.message, "network")

\* callWithRetry that rethrows only after the last attempt, whatever the error
RetryGivesUp_lastAttemptOnly(attempt, error) == attempt = MaxRetries

\* callWithRetry: after the attempt-th call threw error, rethrow it
RetryGivesUp(attempt, error) == attempt = MaxRetries \/ ~isRetryableError(error)

(***************************************************************************)
(* Safety screening (ModelArmorService)                                    *)
(***************************************************************************)
\* violations a sanitize request reports, by their reasons
ViolationLists == {<<>>, <<"pi_and_jailbreak">>, <<"malicious_uris", "rai">>}

\* the sanitize request throws
ScreenerFailure == [failed |-> TRUE]

ScreenerOutcomes == [violations : ViolationLists] \cup {ScreenerFailure}

\* the result of a screening that was skipped or failed
NoVerdict == [blocked |-> FALSE, reasons |-> <<>>]

\* screenPDF / screenPrompt / screenResponse: the ScreeningResult returned
ScreeningResultOf(outcome) ==
    IF outcome = ScreenerFailure
    THEN NoVerdict
    ELSE [blocked |-> outcome.violations # <<>>, reasons |-> outcome.violations]

\* the caller's test of a ScreeningResult, never taken
IsBlocked_never(result) == FALSE

\* the caller's test of a ScreeningResult: if (result.blocked)
IsBlocked(result) == result.blocked

\* the reasons of the user prompt put before those of the system prompt
BlockedReasons_userFirst(system, user) ==
    (IF user.blocked THEN user.reasons ELSE <<>>)
        \o (IF system.blocked THEN system.reasons ELSE <<>>)

\* the reasons list built from the two prompt screenings
BlockedReasons(system, user) ==
    (IF system.blocked THEN system.reasons ELSE <<>>)
        \o (IF user.blocked THEN user.reasons ELSE <<>>)

(***************************************************************************)
(* Retrieval (RagService.query)                                            *)
(***************************************************************************)
\* the two queries of evaluateCV / evaluateProject, in order
QuerySteps == {"queryContext", "queryRubric"}

AfterQuery(step) == IF step = "queryContext" THEN "queryRubric" ELSE "screenSystemPrompt"

\* what a request to a provider ends with: a response, or a rejection
Responded(status, body) == [responded |-> TRUE, status |-> status, body |-> body]

Rejected(error) == [responded |-> FALSE, error |-> error]

\* maxRetries of embedText
MaxEmbedRetries == 3

\* embedText: the delay before the next attempt is attempt * 2000 ms
EmbedDelayStep == 2000

\* errors fetch rejects with: the AbortSignal.timeout of 30 s (a DOMException
\* named TimeoutError, whose code is the number 23, written here as the
\* string the job schema casts it to), a connection that could not be made,
\* a connect timeout
AbortTimeoutError ==
    [message |-> <<"The operation was aborted due to", "timeout">>, code |-> "23", status |-> 0]

FetchFailedError == [message |-> <<"fetch failed">>, code |-> "", status |-> 0]

ConnectTimeoutError ==
    [message |-> <<"Connect Timeout Error">>, code |-> "UND_ERR_CONNECT_TIMEOUT", status |-> 0]

EmbedOk == Responded(200, <<"embedding">>)

EmbedRateLimited == Responded(429, <<"Resource has been exhausted">>)

EmbedUnavailable == Responded(503, <<"The service is currently unavailable">>)

EmbedBadRequest == Responded(400, <<"Invalid argument">>)

\* what one attempt of embedText may end with
EmbedOutcomes ==
    {EmbedOk, EmbedRateLimited, EmbedUnavailable, EmbedBadRequest,
     Rejected(AbortTimeoutError), Rejected(FetchFailedError), Rejected(ConnectTimeoutError)}

\* what the embedding provider does at each of the attempts, in order
EmbedScripts == [1..MaxEmbedRetries -> EmbedOutcomes]

\* embedText: the error an attempt throws inside the try block
EmbedErrorOf(outcome) ==
    IF outcome.responded
    THEN [message |-> <<"Embedding API error:">> \o outcome.body, code |-> "", status |-> 0]
    ELSE outcome.error

\* the retry test of embedText that takes every error for a transient one
EmbedRetryable_always(error) == TRUE

\* embedText: the errors its catch block retries
EmbedRetryable(error) ==
    \/ error.code = "UND_ERR_CONNECT_TIMEOUT"
    \/ Includes(error.message, "timeout")
    \/ Includes(error.message, "fetch failed")

\* embedText from its attempt-th iteration on, delays being the sleeps made
RECURSIVE EmbedFrom(_, _, _)
EmbedFrom(script, attempt, delays) ==
    IF script[attempt] = EmbedOk
    THEN [error |-> Null, attempts |-> attempt, delays |-> delays]
    ELSE IF EmbedRetryable(EmbedErrorOf(script[attempt])) /\ attempt < MaxEmbedRetries
    THEN EmbedFrom(script, attempt + 1, Append(delays, attempt * EmbedDelayStep))
    ELSE [error |-> EmbedErrorOf(script[attempt]), attempts |-> attempt, delays |-> delays]

\* RagService.embedText: the error thrown (Null when the vector is returned),
\* the attempts made and the sleeps between them
embedText(script) == EmbedFrom(script, 1, <<>>)

\* matches the vector store answers with, by their content
MatchLists == {<<>>, <<"chunk">>}

Answered(matches) == [responded |-> TRUE, matches |-> matches]

\* what the vector store does with the nearest-neighbour request
SearchOutcomes ==
    {Answered(m) : m \in MatchLists}
        \cup {Rejected(PineconeError), Rejected(RateLimitError)}

\* what the embedding provider does during a query of the pipeline, at the
\* attempts embedText makes (the entries past them are never read)
QueryEmbedScripts ==
    {script \in [1..MaxEmbedRetries -> {EmbedOk, EmbedRateLimited, Rejected(AbortTimeoutError)}] :
        \A i \in 1..MaxEmbedRetries : i > embedText(script).attempts => script[i] = EmbedOk}

\* the failure of a query: the call that failed, what its provider did at
\* the last attempt, and the attempts made
QueryFailure(site, cause, attempts) == [site |-> site, cause |-> cause, attempts |-> attempts]

\* query that treats an answer without matches as an error
query_emptyIsError(script, search) ==
    IF embedText(script).error # Null
    THEN [error |-> embedText(script).error, chunks |-> <<>>,
          failure |-> QueryFailure("embedText", script[embedText(script).attempts],
                                   embedText(script).attempts)]
    ELSE IF ~search.responded
    THEN [error |-> search.error, chunks |-> <<>>,
          failure |-> QueryFailure("query", search, 1)]
    ELSE IF search.matches = <<>>
    THEN [error |-> PineconeError, chunks |-> <<>>,
          failure |-> QueryFailure("query", search, 1)]
    ELSE [error |-> Null, chunks |-> search.matches, failure |-> Null]

\* RagService.query: the error rethrown, or the matches mapped to chunks
query(script, search) ==
    IF embedText(script).error # Null
    THEN [error |-> embedText(script).error, chunks |-> <<>>,
          failure |-> QueryFailure("embedText", script[embedText(script).attempts],
                                   embedText(script).attempts)]
    ELSE IF ~search.responded
    THEN [error |-> search.error, chunks |-> <<>>,
          failure |-> QueryFailure("query", search, 1)]
    ELSE [error |-> Null,
          chunks |-> [i \in 1..Len(search.matches) |-> search.matches[i]],
          failure |-> Null]

\* no query made yet in the stage
NoRetrieval == [queryContext |-> Null, queryRubric |-> Null]

(***************************************************************************)
(* Injection detection                                                     *)
(***************************************************************************)
\* reasons the detection provider gives for its verdict (its schema asks
\* for 20 characters or more): one that names neither document, one that
\* names the CV, one that names the Project, and one that names the CV
\* after its hundredth character
DetectionReasons ==
    {<<"Instructions addressed to the evaluator were found in the text">>,
     <<"Hidden text asks the", "CV", "screener to set score=10">>,
     <<"The text tells the reader of the", "Project", "report to ignore the rubric">>,
     <<"The document repeats, in white text on a white ground and many times over, an order to the evaluator",
       "to rate the", "CV", "highest">>}

Detections ==
    [detected : BOOLEAN, severity : Severities, confidence : Confidences,
     reason : DetectionReasons]

\* what the detection provider does with a request: it answers with an
\* object of the detection schema, or the request fails
ProviderFailure == [failed |-> TRUE]

ProviderOutcomes == Detections \cup {ProviderFailure}

\* texts as lists of characters, " " standing for any whitespace
MaxTextLen == 2

Chars == {" ", "x"}

Texts == UNION {[1..n -> Chars] : n \in 0..MaxTextLen}

\* the text parsePDF extracted from a document (trimmed, never blank)
ExtractedText == <<"x">>

\* !text || text.trim().length === 0, without the trim
IsBlankText_noTrim(text) == text = <<>>

\* !text || text.trim().length === 0
IsBlankText(text) == \A i \in 1..Len(text) : text[i] = " "

\* what detectInjectionWithAI returns for an empty text
EmptyTextResult ==
    [detected |-> FALSE, severity |-> "low", confidence |-> 0,
     reason |-> <<"Empty text, no injection possible">>]

\* what detectInjectionWithAI returns when the provider call fails
DetectionFailed ==
    [detected |-> FALSE, severity |-> "low", confidence |-> 0,
     reason |-> <<"AI detection failed">>]

\* detectInjectionWithAI that reports a failed provider call as an attack
detectInjectionWithAI_failClosed(text, context, outcome) ==
    IF IsBlankText(text)
    THEN [result |-> EmptyTextResult, requests |-> 0]
    ELSE IF outcome = ProviderFailure
    THEN [result |-> [DetectionFailed EXCEPT !.detected = TRUE, !.severity = "critical"],
          requests |-> 1]
    ELSE [result |-> [detected |-> outcome.detected, severity |-> outcome.severity,
                      confidence |-> outcome.confidence, reason |-> outcome.reason],
          requests |-> 1]

\* PromptInjectionDetectorService.detectInjectionWithAI: the result, and the
\* number of requests made to the detection provider
detectInjectionWithAI(text, context, outcome) ==
    IF IsBlankText(text)
    THEN [result |-> EmptyTextResult, requests |-> 0]
    ELSE IF outcome = ProviderFailure
    THEN [result |-> DetectionFailed, requests |-> 1]
    ELSE [result |-> [detected |-> outcome.detected, severity |-> outcome.severity,
                      confidence |-> outcome.confidence, reason |-> outcome.reason],
          requests |-> 1]

\* shouldBlockCV with the confidence boundary excluded
shouldBlockCV_exclusive(d) ==
    \/ d.severity = "critical"
    \/ d.severity = "high"
    \/ d.confidence > 30

\* shouldBlockCV without its confidence test
shouldBlockCV_severityOnly(d) == d.severity = "critical" \/ d.severity = "high"

\* InjectionDetectionHelper.shouldBlockCV
shouldBlockCV(d) ==
    \/ d.severity = "critical"
    \/ d.severity = "high"
    \/ d.confidence >= 30

\* shouldBlockProject with the thresholds of the CV profile
shouldBlockProject_cvThresholds(d) ==
    \/ d.severity = "critical"
    \/ d.severity = "high"
    \/ d.confidence >= 30

\* InjectionDetectionHelper.shouldBlockProject
shouldBlockProject(d) == d.severity = "critical" \/ d.confidence >= 60

shouldBlock(side, d) == IF side = "cv" THEN shouldBlockCV(d) ELSE shouldBlockProject(d)

\* detection handling that applies the block predicate whether or not
\* the verdict reports a detection
handleDetectionThrows_detectedIgnored(side, d) == shouldBlock(side, d)

\* handleCVDetection / handleProjectDetection throw exactly when this holds
handleDetectionThrows(side, d) == d.detected /\ shouldBlock(side, d)

(***************************************************************************)
(* Scoring                                                                 *)
(***************************************************************************)
\* the scores a scoring response may hold: the schema's int().min(1).max(5)
Scores == 1..5

\* generateCVEvaluation: the validated object, by its four scores
CVEvaluationOf(s) ==
    [technical_skills_match |-> [score |-> s[1]],
     experience_level |-> [score |-> s[2]],
     relevant_achievements |-> [score |-> s[3]],
     cultural_fit |-> [score |-> s[4]],
     overall_feedback |-> "cv overall_feedback",
     cv_recommendation |-> "cv_recommendation"]

\* generateProjectEvaluation: the validated object, by its five scores
ProjectEvaluationOf(s) ==
    [correctness |-> [score |-> s[1]],
     code_quality |-> [score |-> s[2]],
     resilience |-> [score |-> s[3]],
     documentation |-> [score |-> s[4]],
     creativity |-> [score |-> s[5]],
     overall_feedback |-> "project overall_feedback",
     project_recommendation |-> "project_recommendation"]

\* the evaluations the scoring calls return during a run of the pipeline
\* (every other evaluation goes through the same code: see SpecScore)
CVScoreSamples == {CVEvaluationOf(<<5, 4, 3, 2>>)}

ProjectScoreSamples == {ProjectEvaluationOf(<<5, 5, 4, 3, 2>>)}

\* evaluateCV: const weights, in hundredths
CVWeights ==
    [technical_skills_match |-> 40, experience_level |-> 25,
     relevant_achievements |-> 20, cultural_fit |-> 15]

\* evaluateProject: const weights, in hundredths
ProjectWeights ==
    [correctness |-> 30, code_quality |-> 25, resilience |-> 20,
     documentation |-> 15, creativity |-> 10]

\* a breakdown whose weighted_score is the bare score
Breakdown_unweighted(evaluation, weights) ==
    [c \in DOMAIN weights |->
        [score |-> evaluation[c].score,
         weight |-> weights[c],
         weighted_score |-> evaluation[c].score]]

\* evaluateCV / evaluateProject: the scoring breakdown, one entry for each
\* criterion (weight in hundredths, weighted_score in hundredths of a point)
Breakdown(evaluation, weights) ==
    [c \in DOMAIN weights |->
        [score |-> evaluation[c].score,
         weight |-> weights[c],
         weighted_score |-> evaluation[c].score * weights[c]]]

\* evaluateCV that leaves out the division by 5
CVResultOf_unnormalised(evaluation) ==
    [cv_match_rate |->
        evaluation.technical_skills_match.score * CVWeights.technical_skills_match
        + evaluation.experience_level.score * CVWeights.experience_level
        + evaluation.relevant_achievements.score * CVWeights.relevant_achievements
        + evaluation.cultural_fit.score * CVWeights.cultural_fit,
     cv_feedback |-> evaluation.overall_feedback,
     cv_recommendation |-> evaluation.cv_recommendation,
     cv_scoring_breakdown |-> Breakdown(evaluation, CVWeights)]

\* evaluateCV: the CVResult built from the evaluation; cv_match_rate in
\* hundredths (the weighted sum is a multiple of 5, the division is exact)
CVResultOf(evaluation) ==
    [cv_match_rate |->
        (evaluation.technical_skills_match.score * CVWeights.technical_skills_match
         + evaluation.experience_level.score * CVWeights.experience_level
         + evaluation.relevant_achievements.score * CVWeights.relevant_achievements
         + evaluation.cultural_fit.score * CVWeights.cultural_fit) \div 5,
     cv_feedback |-> evaluation.overall_feedback,
     cv_recommendation |-> evaluation.cv_recommendation,
     cv_scoring_breakdown |-> Breakdown(evaluation, CVWeights)]

\* evaluateProject that normalises the score as evaluateCV does
ProjectResultOf_normalised(evaluation) ==
    [project_score |->
        (evaluation.correctness.score * ProjectWeights.correctness
         + evaluation.code_quality.score * ProjectWeights.code_quality
         + evaluation.resilience.score * ProjectWeights.resilience
         + evaluation.documentation.score * ProjectWeights.documentation
         + evaluation.creativity.score * ProjectWeights.creativity) \div 5,
     project_feedback |-> evaluation.overall_feedback,
     project_recommendation |-> evaluation.project_recommendation,
     project_scoring_breakdown |-> Breakdown(evaluation, ProjectWeights)]

\* evaluateProject: the ProjectResult built from the evaluation;
\* project_score in hundredths of the 1-5 scale
ProjectResultOf(evaluation) ==
    [project_score |->
        evaluation.correctness.score * ProjectWeights.correctness
        + evaluation.code_quality.score * ProjectWeights.code_quality
        + evaluation.resilience.score * ProjectWeights.resilience
        + evaluation.documentation.score * ProjectWeights.documentation
        + evaluation.creativity.score * ProjectWeights.creativity,
     project_feedback |-> evaluation.overall_feedback,
     project_recommendation |-> evaluation.project_recommendation,
     project_scoring_breakdown |-> Breakdown(evaluation, ProjectWeights)]

\* synthesizeResults: the values handed to SYNTHESIS_USER_PROMPT
SynthesisPromptValues(cv, project) ==
    [cvMatchRate |-> cv.cv_match_rate,
     cvFeedback |-> cv.cv_feedback,
     projectScore |-> project.project_score * 5,
     projectFeedback |-> project.project_feedback]

\* structureCVWithAI / structureProjectWithAI: the structure returned when
\* the structuring call fails (no name and empty lists; 'Not specified')
BasicStructure == "basic structure"

\* parseCV / parseProject: the structure together with the raw text
ParsedOf(structure) == [structure |-> structure, rawText |-> ExtractedText]

\* the safe sentence synthesizeResults returns for an empty or blocked summary
FallbackSummary == "Summary generation completed. Please review the detailed evaluation results."

\* texts generateText returns in synthesis
SummaryTexts == {"summary text", "", "   "}

\* !summary || summary.trim().length === 0, without the trim
IsBlank_emptyOnly(text) == text = ""

\* !summary || summary.trim().length === 0
IsBlank(text) == text \in {"", "   "}

\* process(): the result object handed to completeJob
CombineResults(cv, project, overallSummary) ==
    [cv_match_rate |-> cv.cv_match_rate,
     cv_feedback |-> cv.cv_feedback,
     cv_scoring_breakdown |-> cv.cv_scoring_breakdown,
     project_score |-> project.project_score,
     project_feedback |-> project.project_feedback,
     project_scoring_breakdown |-> project.project_scoring_breakdown,
     overall_summary |-> overallSummary]

(***************************************************************************)
(* Job Store                                                               *)
(***************************************************************************)
Unset == 0

\* EvaluationService.createJob
createJob ==
    [status |-> "queued", current_stage |-> "", progress_percentage |-> 0,
     result |-> Null, error |-> Null, started_at |-> Unset, completed_at |-> Unset,
     metadata |-> [llm_calls_count |-> 0, total_tokens_used |-> 0,
                   processing_time_ms |-> 0, retry_count |-> 0]]

\* no record of that job_id in the collection
Absent == [absent |-> TRUE]

\* the $set of updateJobProgress, computed from the document found by its
\* findOne and applied to the document as it is at the updateOne
ProgressSet(found, current, progress, stage, date) ==
    [current EXCEPT !.progress_percentage = progress,
                    !.current_stage = stage,
                    !.status = "processing",
                    !.started_at = IF found # Absent /\ found.status = "queued"
                                      /\ found.started_at = Unset
                                   THEN date ELSE @]

\* EvaluationService.updateJobProgress when no other write comes between
\* its findOne and its updateOne
updateJobProgress(j, progress, stage, date) == ProgressSet(j, j, progress, stage, date)

\* EvaluationService.completeJob
completeJob(j, result, date) ==
    [j EXCEPT !.status = "completed",
              !.progress_percentage = 100,
              !.result = result,
              !.completed_at = date]

\* failJob that sets the status and stores no error record
failJob_errorDropped(j, error, stage) == [j EXCEPT !.status = "failed"]

\* failJob that stores the error record and leaves the status alone
failJob_statusKept(j, error, stage) ==
    [j EXCEPT !.error = [code |-> IF error.code # "" THEN error.code ELSE "UNKNOWN_ERROR",
                         message |-> IF error.message # <<>> THEN error.message
                                     ELSE <<"Unknown error occurred">>,
                         stage |-> stage]]

\* failJob that also writes the inferred stage and a zero progress into the
\* record
failJob_progressCleared(j, error, stage) ==
    [j EXCEPT !.status = "failed",
              !.progress_percentage = 0,
              !.current_stage = stage,
              !.error = [code |-> IF error.code # "" THEN error.code ELSE "UNKNOWN_ERROR",
                         message |-> IF error.message # <<>> THEN error.message
                                     ELSE <<"Unknown error occurred">>,
                         stage |-> stage]]

\* failJob that copies code and message without their defaults
failJob_noDefaults(j, error, stage) ==
    [j EXCEPT !.status = "failed",
              !.error = [code |-> error.code, message |-> error.message, stage |-> stage]]

\* EvaluationService.failJob
failJob(j, error, stage) ==
    [j EXCEPT !.status = "failed",
              !.error = [code |-> IF error.code # "" THEN error.code ELSE "UNKNOWN_ERROR",
                         message |-> IF error.message # <<>> THEN error.message
                                     ELSE <<"Unknown error occurred">>,
                         stage |-> stage]]

\* getResult that marks every ended job resubmittable
getResult_retryWhenEnded(j) ==
    [status |-> j.status,
     current_stage |-> j.current_stage,
     progress_percentage |-> j.progress_percentage,
     started_at |-> j.started_at,
     completed_at |-> j.completed_at,
     result |-> IF j.status = "completed" /\ j.result # Null THEN j.result ELSE Null,
     error |-> IF j.status = "failed" /\ j.error # Null THEN j.error ELSE Null,
     retry_possible |-> j.status \in {"completed", "failed"}]

\* EvaluationController.getResult: the response built from the job record
\* (Null for a field left out of the response, FALSE for retry_possible
\* left out)
getResult(j) ==
    [status |-> j.status,
     current_stage |-> j.current_stage,
     progress_percentage |-> j.progress_percentage,
     started_at |-> j.started_at,
     completed_at |-> j.completed_at,
     result |-> IF j.status = "completed" /\ j.result # Null THEN j.result ELSE Null,
     error |-> IF j.status = "failed" /\ j.error # Null THEN j.error ELSE Null,
     retry_possible |-> j.status = "failed" /\ j.error # Null]

\* process(): the stage the catch block infers from the error message
InferStage(error) ==
    IF Includes(error.message, "CV") THEN "cv_evaluation"
    ELSE IF Includes(error.message, "Project") THEN "project_evaluation"
    ELSE "unknown"

(***************************************************************************)
(* The stages of process(), in order, and what each commits on entry       *)
(***************************************************************************)
Stages == <<"cv_parsing", "cv_evaluation", "project_parsing", "project_evaluation",
            "synthesis", "completing">>

StageIndex(stage) == CHOOSE i \in 1..Len(Stages) : Stages[i] = stage

\* the label process() passes to updateJobProgress on entering the stage
StageLabel(stage) == IF stage = "synthesis" THEN SynthesisLabel ELSE stage

\* the progress process() passes to updateJobProgress on entering the stage
StageProgress(stage) ==
    CASE stage = "cv_parsing" -> 10
      [] stage = "cv_evaluation" -> 30
      [] stage = "project_parsing" -> 50
      [] stage = "project_evaluation" -> 65
      [] stage = "synthesis" -> 85
      [] stage = "completing" -> 95

\* the first step of a stage's work
FirstStep(stage) ==
    CASE stage \in {"cv_parsing", "project_parsing"} -> "getDocumentById"
      [] stage \in {"cv_evaluation", "project_evaluation"} -> "queryContext"
      [] stage = "synthesis" -> "screenSystemPrompt"
      [] stage = "completing" -> "completeJob"

At(stage, step) == pc = [stage |-> stage, step |-> step]

Goto(stage, step) == pc' = [stage |-> stage, step |-> step]

\* the stage's work has returned: process() goes on to the next commit
NextStage(stage) == Goto(Stages[StageIndex(stage) + 1], "commit")

\* a Job Store commit made in stage: the label and the progress it stores
CommitEvent(stage, label, progress) ==
    [kind |-> "commit", stage |-> stage, name |-> label, progress |-> progress]

\* an external call made by the work of stage
CallEvent(stage, name) == [kind |-> "call", stage |-> stage, name |-> name, progress |-> 0]

Log(event) == trace' = Append(trace, event)

IdleGen == [phase |-> "idle", attempt |-> 0]

\* no service method has been called on its own
NoProbe == [op |-> "none"]

NoScreening ==
    [pdf |-> NoVerdict, system |-> NoVerdict, user |-> NoVerdict, response |-> NoVerdict]

\* an error escapes the try block of process(): control goes to its catch
Throw(error) == /\ err' = error
                /\ pc' = [stage |-> pc.stage, step |-> "catch"]


(***************************************************************************)
(* Initial state: evaluate() has saved the job record and enqueued the     *)
(* descriptor; each document may or may not already hold extracted text.   *)
(***************************************************************************)
Init ==
    /\ job = createJob
    /\ docs \in [Sides -> [cached : BOOLEAN]]
    /\ queue = "waiting"
    /\ attemptsMade = 0
    /\ pc = [stage |-> "none", step |-> "idle"]
    /\ err = Null
    /\ detection = Null
    /\ screening = NoScreening
    /\ cvResult = Null
    /\ projectResult = Null
    /\ summary = Null
    /\ gen = IdleGen
    /\ now = 1
    /\ trace = <<>>
    /\ failedOnce = FALSE
    /\ probe = NoProbe
    /\ parsed = Null
    /\ retrieved = NoRetrieval
    /\ escalations = 0
    /\ foundRecord = Null

frame == <<err, detection, screening, cvResult, projectResult, summary, gen>>

(***************************************************************************)
(* Queue: a worker takes the waiting descriptor and calls process()        *)
(***************************************************************************)
Deliver ==
    /\ queue = "waiting"
    /\ queue' = "active"
    /\ attemptsMade' = attemptsMade + 1
    /\ Goto("cv_parsing", "commit")
    /\ err' = Null
    /\ detection' = Null
    /\ screening' = NoScreening
    /\ cvResult' = Null
    /\ projectResult' = Null
    /\ summary' = Null
    /\ gen' = IdleGen
    /\ trace' = <<>>
    /\ parsed' = Null
    /\ retrieved' = NoRetrieval
    /\ escalations' = 0
    /\ UNCHANGED <<job, docs, now, failedOnce, probe, foundRecord>>

(***************************************************************************)
(* process(): the progress commit that opens a stage                       *)
(***************************************************************************)
\* updateJobProgress: await findOne({ job_id })
Process_findOne ==
    \E stage \in {Stages[i] : i \in 1..Len(Stages)} :
        /\ At(stage, "commit")
        /\ foundRecord' = job
        /\ Goto(stage, "updateOne")
        /\ UNCHANGED <<job, docs, queue, attemptsMade, frame, now, trace, failedOnce, probe,
                       escalations, parsed, retrieved>>

\* updateJobProgress: await updateOne({ job_id }, { $set: update }), the
\* update having been built from the record found
Process_updateOne ==
    \E stage \in {Stages[i] : i \in 1..Len(Stages)} :
        /\ At(stage, "updateOne")
        /\ job' = ProgressSet(foundRecord, job, StageProgress(stage), StageLabel(stage), now)
        /\ now' = now + 1
        /\ foundRecord' = Null
        /\ Log(CommitEvent(stage, StageLabel(stage), StageProgress(stage)))
        /\ Goto(stage, FirstStep(stage))
        /\ UNCHANGED <<docs, queue, attemptsMade, frame, failedOnce, probe, escalations,
                       parsed, retrieved>>

(***************************************************************************)
(* parseCV / parseProject                                                  *)
(***************************************************************************)
Parse_getDocumentById ==
    \E side \in Sides :
        /\ At(ParsingStage(side), "getDocumentById")
        /\ Log(CallEvent(ParsingStage(side), "getDocumentById"))
        /\ Goto(ParsingStage(side), "screenPDF")
        /\ UNCHANGED <<job, docs, queue, attemptsMade, frame, now, failedOnce, probe, foundRecord, escalations, parsed, retrieved>>

\* parseCV / parseProject: if (!cvText), cvText being parsed_content?.text
NeedsExtraction(document) == ~document.cached

Parse_screenPDF ==
    \E side \in Sides, outcome \in ScreenerOutcomes :
        LET result == ScreeningResultOf(outcome) IN
        /\ At(ParsingStage(side), "screenPDF")
        /\ Log(CallEvent(ParsingStage(side), "screenPDF"))
        /\ screening' = [screening EXCEPT !.pdf = result]
        /\ IF IsBlocked(result)
           THEN Throw(ScreeningBlockedError(side, result.reasons))
           ELSE /\ Goto(ParsingStage(side),
                        IF NeedsExtraction(docs[side]) THEN "parsePDF"
                        ELSE "detectInjectionWithAI")
                /\ err' = err
        /\ UNCHANGED <<job, docs, queue, attemptsMade, detection, cvResult,
                       projectResult, summary, gen, now, failedOnce, probe, foundRecord, escalations, parsed, retrieved>>

Parse_parsePDF ==
    \E side \in Sides, outcome \in OcrOutcomes :
        /\ At(ParsingStage(side), "parsePDF")
        /\ Log(CallEvent(ParsingStage(side), "parsePDF"))
        /\ IF parsePDF(outcome) = Null
           THEN /\ Goto(ParsingStage(side), "updateDocumentParsedContent")
                /\ err' = err
           ELSE Throw(parsePDF(outcome))
        /\ UNCHANGED <<job, docs, queue, attemptsMade, detection, screening, cvResult,
                       projectResult, summary, gen, now, failedOnce, probe, foundRecord, escalations, parsed, retrieved>>

Parse_updateDocumentParsedContent ==
    \E side \in Sides :
        /\ At(ParsingStage(side), "updateDocumentParsedContent")
        /\ Log(CallEvent(ParsingStage(side), "updateDocumentParsedContent"))
        /\ docs' = [docs EXCEPT ![side].cached = TRUE]
        /\ Goto(ParsingStage(side), "detectInjectionWithAI")
        /\ UNCHANGED <<job, queue, attemptsMade, frame, now, failedOnce, probe, foundRecord, escalations, parsed, retrieved>>

\* the detector is called on the extracted text
Parse_detectInjectionWithAI ==
    \E side \in Sides, outcome \in ProviderOutcomes :
        /\ At(ParsingStage(side), "detectInjectionWithAI")
        /\ Log(CallEvent(ParsingStage(side), "detectInjectionWithAI"))
        /\ detection' = detectInjectionWithAI(ExtractedText, side, outcome).result
        /\ Goto(ParsingStage(side), "handleDetection")
        /\ UNCHANGED <<job, docs, queue, attemptsMade, err, screening, cvResult,
                       projectResult, summary, gen, now, failedOnce, probe, foundRecord, escalations, parsed, retrieved>>


\* handleCVDetection / handleProjectDetection, called when detected is true
Parse_handleDetection ==
    \E side \in Sides :
        /\ At(ParsingStage(side), "handleDetection")
        /\ IF handleDetectionThrows(side, detection)
           THEN Throw(BadRequest(createBlockedErrorMessage(side, detection)))
           ELSE /\ Goto(ParsingStage(side), "structure")
                /\ err' = err
        /\ UNCHANGED <<job, docs, queue, attemptsMade, detection, screening, cvResult,
                       projectResult, summary, gen, now, trace, failedOnce, probe, foundRecord, escalations, parsed, retrieved>>

(***************************************************************************)
(* evaluateCV / evaluateProject                                            *)
(***************************************************************************)
Evaluate_query ==
    /\ pc.step \in QuerySteps
    /\ \E script \in QueryEmbedScripts, search \in SearchOutcomes :
        LET answer == query(script, search) IN
        /\ Log(CallEvent(pc.stage, pc.step))
        /\ retrieved' = [retrieved EXCEPT ![pc.step] = [search |-> IF embedText(script).error = Null
                                                                   THEN search ELSE Null,
                                                        chunks |-> answer.chunks,
                                                        failure |-> answer.failure]]
        /\ IF answer.error = Null
           THEN /\ Goto(pc.stage, AfterQuery(pc.step))
                /\ err' = err
           ELSE Throw(answer.error)
    /\ UNCHANGED <<job, docs, queue, attemptsMade, detection, screening, cvResult,
                   projectResult, summary, gen, now, failedOnce, probe, foundRecord, escalations,
                   parsed>>

(***************************************************************************)
(* Prompt screening of evaluateCV, evaluateProject and synthesizeResults   *)
(***************************************************************************)
PromptStages == {"cv_evaluation", "project_evaluation", "synthesis"}

Screen_systemPrompt ==
    \E stage \in PromptStages, outcome \in ScreenerOutcomes :
        /\ At(stage, "screenSystemPrompt")
        /\ Log(CallEvent(stage, "screenPrompt"))
        /\ screening' = [screening EXCEPT !.system = ScreeningResultOf(outcome),
                                          !.user = NoVerdict]
        /\ Goto(stage, "screenUserPrompt")
        /\ UNCHANGED <<job, docs, queue, attemptsMade, err, detection, cvResult,
                       projectResult, summary, gen, now, failedOnce, probe, foundRecord, escalations, parsed, retrieved>>

Screen_userPrompt ==
    \E stage \in PromptStages, outcome \in ScreenerOutcomes :
        LET result == ScreeningResultOf(outcome) IN
        /\ At(stage, "screenUserPrompt")
        /\ Log(CallEvent(stage, "screenPrompt"))
        /\ screening' = [screening EXCEPT !.user = result]
        /\ IF IsBlocked(screening.system) \/ IsBlocked(result)
           THEN Throw(PromptsBlockedError(stage, BlockedReasons(screening.system, result)))
           ELSE /\ Goto(stage, "generate")
                /\ err' = err
        /\ UNCHANGED <<job, docs, queue, attemptsMade, detection, cvResult,
                       projectResult, summary, gen, now, failedOnce, probe, foundRecord, escalations, parsed, retrieved>>

(***************************************************************************)
(* AIService: one callWithRetry call, at the step "structure" of a parsing *)
(* stage (generateCVStructure, generateProjectStructure) or at the step    *)
(* "generate" of an evaluation stage or of synthesis                       *)
(***************************************************************************)
GenSteps == {"structure", "generate"}

\* the wrapped function has a second request to fall back on
HasFallback(stage) == stage # "synthesis"

Gen_call ==
    /\ pc.step \in GenSteps
    /\ gen.phase = "idle"
    /\ gen' = [phase |-> "primary", attempt |-> 1]
    /\ Log(CallEvent(pc.stage, pc.step))
    /\ UNCHANGED <<job, docs, queue, attemptsMade, pc, err, detection, screening,
                   cvResult, projectResult, summary, now, failedOnce, probe, foundRecord, escalations, parsed, retrieved>>

\* the call returns value: the stage's work goes on
GenReturns(value) ==
    /\ gen' = IdleGen
    /\ err' = err
    /\ CASE pc.step = "structure" ->
              /\ parsed' = ParsedOf(value)
              /\ NextStage(pc.stage)
              /\ detection' = Null
              /\ UNCHANGED <<cvResult, projectResult, summary, retrieved>>
         [] pc.stage = "cv_evaluation" ->
              /\ cvResult' = CVResultOf(value)
              /\ parsed' = Null
              /\ retrieved' = NoRetrieval
              /\ NextStage(pc.stage)
              /\ UNCHANGED <<detection, projectResult, summary>>
         [] pc.stage = "project_evaluation" ->
              /\ projectResult' = ProjectResultOf(value)
              /\ parsed' = Null
              /\ retrieved' = NoRetrieval
              /\ NextStage(pc.stage)
              /\ UNCHANGED <<detection, cvResult, summary>>
         [] pc.stage = "synthesis" ->
              /\ IF IsBlank(value)
                 THEN /\ summary' = [generated |-> value, text |-> FallbackSummary]
                      /\ NextStage(pc.stage)
                 ELSE /\ summary' = [generated |-> value, text |-> value]
                      /\ Goto("synthesis", "screenResponse")
              /\ UNCHANGED <<detection, cvResult, projectResult, parsed, retrieved>>

\* the call throws error and no caller catches it
GenThrows_escapes(error) ==
    /\ gen' = IdleGen
    /\ Throw(error)
    /\ UNCHANGED <<detection, cvResult, projectResult, summary, parsed, retrieved>>

\* the call throws error: structuring falls back to the basic structure,
\* every other call lets the error escape to process()
GenThrows(error) ==
    /\ gen' = IF pc.step = "structure" THEN IdleGen ELSE [gen EXCEPT !.phase = "thrown"]
    /\ IF pc.step = "structure"
       THEN /\ parsed' = ParsedOf(BasicStructure)
            /\ NextStage(pc.stage)
            /\ detection' = Null
            /\ err' = err
       ELSE /\ Throw(error)
            /\ detection' = detection
            /\ parsed' = parsed
    /\ UNCHANGED <<cvResult, projectResult, summary, retrieved>>

\* the wrapped function threw error inside callWithRetry
FnThrows(error) ==
    IF RetryGivesUp(gen.attempt, error)
    THEN GenThrows(error)
    ELSE /\ gen' = [gen EXCEPT !.phase = "backoff"]
         /\ UNCHANGED <<pc, err, detection, cvResult, projectResult, summary, parsed,
                        retrieved>>

\* values a successful request yields at the running call site
GenValues ==
    CASE pc.step = "structure" -> {"structured"}
      [] pc.stage = "cv_evaluation" -> CVScoreSamples
      [] pc.stage = "project_evaluation" -> ProjectScoreSamples
      [] pc.stage = "synthesis" -> SummaryTexts
      [] OTHER -> {}

Gen_primaryReturns ==
    /\ gen.phase = "primary"
    /\ \E value \in GenValues : GenReturns(value)
    /\ UNCHANGED <<job, docs, queue, attemptsMade, screening, now, trace, failedOnce, probe, foundRecord, escalations>>

\* generateObject resolves without an object: "Model returned empty response"
\* is thrown and rethrown by the inner catch, whose test it does not match
Gen_primaryEmpty ==
    /\ gen.phase = "primary"
    /\ HasFallback(pc.stage)
    /\ ~Escalates(EmptyResponseError)
    /\ FnThrows(EmptyResponseError)
    /\ UNCHANGED <<job, docs, queue, attemptsMade, screening, now, trace, failedOnce, probe, foundRecord, escalations>>

\* generateObject throws "No object generated": the inner catch goes on to
\* the fallback request
Gen_primaryNoObject ==
    /\ gen.phase = "primary"
    /\ HasFallback(pc.stage)
    /\ Escalates(NoObjectError)
    /\ gen' = [gen EXCEPT !.phase = "fallback"]
    /\ UNCHANGED <<job, docs, queue, attemptsMade, pc, err, detection, screening,
                   cvResult, projectResult, summary, now, trace, failedOnce, probe, foundRecord, escalations, parsed, retrieved>>

Gen_primaryThrows ==
    /\ gen.phase = "primary"
    /\ \E error \in ProviderErrors : FnThrows(error)
    /\ UNCHANGED <<job, docs, queue, attemptsMade, screening, now, trace, failedOnce, probe, foundRecord, escalations>>

Gen_fallbackReturns ==
    /\ gen.phase = "fallback"
    /\ \E value \in GenValues : GenReturns(value)
    /\ escalations' = IF pc.step = "generate" THEN escalations + 1 ELSE escalations
    /\ UNCHANGED <<job, docs, queue, attemptsMade, screening, now, trace, failedOnce, probe, foundRecord>>

Gen_fallbackThrows ==
    /\ gen.phase = "fallback"
    /\ \E error \in ProviderErrors \cup {NoObjectError, FallbackEmptyError} : FnThrows(error)
    /\ UNCHANGED <<job, docs, queue, attemptsMade, screening, now, trace, failedOnce, probe, foundRecord, escalations>>

\* callWithRetry sleeps calculateBackoff(attempt) and calls the function again
Gen_backoff ==
    /\ gen.phase = "backoff"
    /\ gen' = [phase |-> "primary", attempt |-> gen.attempt + 1]
    /\ UNCHANGED <<job, docs, queue, attemptsMade, pc, err, detection, screening,
                   cvResult, projectResult, summary, now, trace, failedOnce, probe, foundRecord, escalations, parsed, retrieved>>

(***************************************************************************)
(* synthesizeResults: screening of the generated summary                   *)
(***************************************************************************)
Synthesize_screenResponse ==
    \E outcome \in ScreenerOutcomes :
        /\ At("synthesis", "screenResponse")
        /\ Log(CallEvent("synthesis", "screenResponse"))
        /\ screening' = [screening EXCEPT !.response = ScreeningResultOf(outcome)]
        /\ summary' = IF IsBlocked(ScreeningResultOf(outcome))
                      THEN [summary EXCEPT !.text = FallbackSummary]
                      ELSE summary
        /\ NextStage("synthesis")
        /\ UNCHANGED <<job, docs, queue, attemptsMade, err, detection,
                       cvResult, projectResult, gen, now, failedOnce, probe, foundRecord, escalations, parsed, retrieved>>

(***************************************************************************)
(* process(): completion, and the catch block                              *)
(***************************************************************************)
Process_completeJob ==
    /\ At("completing", "completeJob")
    /\ job' = completeJob(job, CombineResults(cvResult, projectResult, summary.text), now)
    /\ now' = now + 1
    /\ Log(CommitEvent("completing", "completed", 100))
    /\ queue' = "completed"
    /\ Goto("completing", "returned")
    /\ UNCHANGED <<docs, attemptsMade, frame, failedOnce, probe, foundRecord, escalations, parsed, retrieved>>

\* a queue that takes its attempts from EVALUATION_QUEUE_CONFIG and delivers
\* a rejected job again while attempts remain
AfterRejection_configuredAttempts ==
    IF attemptsMade < QueueAttempts THEN "waiting" ELSE "failed"

\* BullMQ: the queue is registered by its name and evaluate() adds the job
\* without options, so a job has one attempt: a rejected process() leaves
\* it failed and no worker is handed it again
AfterRejection == "failed"

Process_catch ==
    /\ pc.step = "catch"
    /\ job' = failJob(job, err, InferStage(err))
    /\ now' = now + 1
    /\ failedOnce' = TRUE
    /\ queue' = AfterRejection
    /\ Goto(pc.stage, "aborted")
    /\ UNCHANGED <<docs, attemptsMade, frame, trace, probe, foundRecord, escalations, parsed, retrieved>>

Next ==
    \/ Deliver
    \/ Process_findOne
    \/ Process_updateOne
    \/ Parse_getDocumentById
    \/ Parse_screenPDF
    \/ Parse_parsePDF
    \/ Parse_updateDocumentParsedContent
    \/ Parse_detectInjectionWithAI
    \/ Parse_handleDetection
    \/ Evaluate_query
    \/ Screen_systemPrompt
    \/ Screen_userPrompt
    \/ Gen_call
    \/ Gen_primaryReturns
    \/ Gen_primaryEmpty
    \/ Gen_primaryNoObject
    \/ Gen_primaryThrows
    \/ Gen_fallbackReturns
    \/ Gen_fallbackThrows
    \/ Gen_backoff
    \/ Synthesize_screenResponse
    \/ Process_completeJob
    \/ Process_catch

Spec == Init /\ [][Next]_vars

(***************************************************************************)
(* The same system with a Job Store whose writes may be rejected           *)
(* (a mongoose updateOne / findOne that throws)                            *)
(***************************************************************************)
\* the findOne or the updateOne of updateJobProgress throws
Store_updateJobProgressRejects ==
    /\ pc.step \in {"commit", "updateOne"}
    /\ Throw(StoreError)
    /\ foundRecord' = Null
    /\ UNCHANGED <<job, docs, queue, attemptsMade, detection, screening, cvResult,
                   projectResult, summary, gen, now, trace, failedOnce, probe, escalations,
                   parsed, retrieved>>

Store_completeJobRejects ==
    /\ At("completing", "completeJob")
    /\ Throw(StoreError)
    /\ UNCHANGED <<job, docs, queue, attemptsMade, detection, screening, cvResult,
                   projectResult, summary, gen, now, trace, failedOnce, probe, foundRecord, escalations, parsed, retrieved>>

\* failJob throws inside the catch block: process() rejects with that error
Store_failJobRejects ==
    /\ pc.step = "catch"
    /\ queue' = AfterRejection
    /\ Goto(pc.stage, "aborted")
    /\ UNCHANGED <<job, docs, attemptsMade, frame, now, trace, failedOnce, probe, foundRecord, escalations, parsed, retrieved>>

NextStoreFault ==
    \/ Next
    \/ Store_updateJobProgressRejects
    \/ Store_completeJobRejects
    \/ Store_failJobRejects

SpecStoreFault == Init /\ [][NextStoreFault]_vars

\* the worker and the services it awaits keep running: every call in
\* flight returns or throws, and a waiting descriptor is delivered
FairSpecStoreFault == SpecStoreFault /\ WF_vars(NextStoreFault)

(***************************************************************************)
(* Service methods called on their own, outside a run of process()         *)
(***************************************************************************)
pipeline == <<job, docs, queue, attemptsMade, pc, err, detection, screening,
              cvResult, projectResult, summary, gen, now, trace, failedOnce, parsed,
              retrieved, escalations, foundRecord>>

\* detectInjectionWithAI(text, context), called twice on the same arguments
Probe_detectInjectionWithAI ==
    /\ probe = NoProbe
    /\ \E text \in Texts, context \in Sides, first \in ProviderOutcomes,
          second \in ProviderOutcomes :
        /\ probe' = [op |-> "detectInjectionWithAI", text |-> text, context |-> context,
                     first |-> detectInjectionWithAI(text, context, first),
                     second |-> detectInjectionWithAI(text, context, second)]
        /\ UNCHANGED pipeline

NextDetect == Probe_detectInjectionWithAI

SpecDetect == Init /\ [][NextDetect]_vars

\* callWithRetry(fn) called on its own: fn is invoked
Retry_call ==
    /\ probe = NoProbe
    /\ probe' = [op |-> "callWithRetry", phase |-> "calling", attempt |-> 1,
                 invocations |-> 1, sleeps |-> 0, errors |-> <<>>, result |-> Null]
    /\ UNCHANGED pipeline

\* fn resolves: callWithRetry returns its value
Retry_fnReturns ==
    /\ probe.op = "callWithRetry"
    /\ probe.phase = "calling"
    /\ probe' = [probe EXCEPT !.phase = "returned", !.result = "value"]
    /\ UNCHANGED pipeline

\* fn rejects: the catch block rethrows, or goes on to sleep
Retry_fnThrows ==
    /\ probe.op = "callWithRetry"
    /\ probe.phase = "calling"
    /\ \E error \in FnErrors :
          probe' = IF RetryGivesUp(probe.attempt, error)
                   THEN [probe EXCEPT !.phase = "thrown", !.result = error,
                                      !.errors = Append(@, error)]
                   ELSE [probe EXCEPT !.phase = "sleeping",
                                      !.errors = Append(@, error)]
    /\ UNCHANGED pipeline

\* the sleep of calculateBackoff(attempt) is over: next iteration, fn is
\* invoked again
Retry_sleep ==
    /\ probe.op = "callWithRetry"
    /\ probe.phase = "sleeping"
    /\ probe' = [probe EXCEPT !.phase = "calling", !.attempt = @ + 1,
                              !.invocations = @ + 1, !.sleeps = @ + 1]
    /\ UNCHANGED pipeline

NextRetry ==
    \/ Retry_call
    \/ Retry_fnReturns
    \/ Retry_fnThrows
    \/ Retry_sleep

SpecRetry == Init /\ [][NextRetry]_vars

(***************************************************************************)
(* The schema-validated generation methods of AIService called on their    *)
(* own: callWithRetry around a first generateObject request and, in the     *)
(* catch block, a second one                                               *)
(***************************************************************************)
EvaluationCalls == {"generateCVEvaluation", "generateProjectEvaluation"}

StructureCalls == {"generateCVStructure", "generateProjectStructure"}

ObjectCalls == EvaluationCalls \cup StructureCalls

\* generateObject resolves, with an object or without one
Resolved(object) == [resolved |-> object]

\* what a generateObject request ends with: it resolves, or it rejects
RequestOutcomes == {Resolved("object"), Resolved("none")} \cup FnErrors

\* the error the catch block of the first request sees
FirstRequestError(outcome) ==
    IF outcome = Resolved("none") THEN EmptyResponseError ELSE outcome

\* the error the second request leaves the function with
SecondRequestError(site, outcome) ==
    IF outcome = Resolved("none")
    THEN IF site \in EvaluationCalls THEN FallbackEmptyError ELSE RetryEmptyError
    ELSE outcome

\* the wrapped function rejected with error: callWithRetry rethrows it, or
\* goes on to sleep
ObjectFnThrows(error) ==
    IF RetryGivesUp(probe.attempt, error)
    THEN [probe EXCEPT !.phase = "thrown", !.result = error]
    ELSE [probe EXCEPT !.phase = "sleeping", !.result = error]

Object_call ==
    /\ probe = NoProbe
    /\ \E site \in ObjectCalls :
          probe' = [op |-> site, phase |-> "first", attempt |-> 1, first |-> Null,
                    second |-> Null, secondRequests |-> 0, result |-> Null,
                    requests |-> 1, sleeps |-> 0]
    /\ UNCHANGED pipeline

\* the first request ends: the object is returned, or the catch block makes
\* the second request, or it rethrows
Object_firstEnds ==
    /\ probe.op \in ObjectCalls
    /\ probe.phase = "first"
    /\ \E outcome \in RequestOutcomes :
          probe' =
            IF outcome = Resolved("object")
            THEN [probe EXCEPT !.phase = "returned", !.first = outcome,
                               !.result = "object"]
            ELSE IF Escalates(FirstRequestError(outcome))
                 THEN [probe EXCEPT !.phase = "second", !.first = outcome,
                                    !.secondRequests = @ + 1, !.requests = @ + 1]
                 ELSE [ObjectFnThrows(FirstRequestError(outcome))
                          EXCEPT !.first = outcome]
    /\ UNCHANGED pipeline

\* the second request ends: the object is returned, or the function rejects
Object_secondEnds ==
    /\ probe.op \in ObjectCalls
    /\ probe.phase = "second"
    /\ \E outcome \in RequestOutcomes :
          probe' =
            IF outcome = Resolved("object")
            THEN [probe EXCEPT !.phase = "returned", !.second = outcome,
                               !.result = "object"]
            ELSE [ObjectFnThrows(SecondRequestError(probe.op, outcome))
                     EXCEPT !.second = outcome]
    /\ UNCHANGED pipeline

\* the sleep of callWithRetry is over: the function is invoked again
Object_sleep ==
    /\ probe.op \in ObjectCalls
    /\ probe.phase = "sleeping"
    /\ probe' = [probe EXCEPT !.phase = "first", !.attempt = @ + 1, !.first = Null,
                              !.second = Null, !.secondRequests = 0, !.result = Null,
                              !.requests = @ + 1, !.sleeps = @ + 1]
    /\ UNCHANGED pipeline

NextObject ==
    \/ Object_call
    \/ Object_firstEnds
    \/ Object_secondEnds
    \/ Object_sleep

SpecObject == Init /\ [][NextObject]_vars

(***************************************************************************)
(* The arithmetic of evaluateCV and evaluateProject applied on its own to   *)
(* every evaluation the scoring schemas admit                              *)
(***************************************************************************)
Probe_evaluateCV ==
    /\ probe = NoProbe
    /\ \E s \in [1..4 -> Scores] :
          probe' = [op |-> "evaluateCV", scores |-> s,
                    evaluation |-> CVEvaluationOf(s),
                    result |-> CVResultOf(CVEvaluationOf(s))]
    /\ UNCHANGED pipeline

Probe_evaluateProject ==
    /\ probe = NoProbe
    /\ \E s \in [1..5 -> Scores] :
          probe' = [op |-> "evaluateProject", scores |-> s,
                    evaluation |-> ProjectEvaluationOf(s),
                    result |-> ProjectResultOf(ProjectEvaluationOf(s))]
    /\ UNCHANGED pipeline

\* synthesizeResults builds its user prompt from the two results
Probe_synthesisPrompt ==
    /\ probe = NoProbe
    /\ \E cv \in CVScoreSamples, s \in [1..5 -> Scores] :
          probe' = [op |-> "synthesizeResults", scores |-> s,
                    result |-> ProjectResultOf(ProjectEvaluationOf(s)),
                    prompt |-> SynthesisPromptValues(CVResultOf(cv),
                                                     ProjectResultOf(ProjectEvaluationOf(s)))]
    /\ UNCHANGED pipeline

NextScore ==
    \/ Probe_evaluateCV
    \/ Probe_evaluateProject
    \/ Probe_synthesisPrompt

SpecScore == Init /\ [][NextScore]_vars

(***************************************************************************)
(* The catch block of process() and failJob applied on their own to a job  *)
(* in any stage and to any thrown error                                    *)
(***************************************************************************)
\* an error with neither message nor code (new Error()), and one with a
\* code only
BareError == [message |-> <<>>, code |-> "", status |-> 0]

CodeOnlyError == [message |-> <<>>, code |-> "ECONNRESET", status |-> 0]

\* the critical detections at confidence 0.9, one for each reason
CriticalDetections ==
    {d \in Detections : d.detected /\ d.severity = "critical" /\ d.confidence = 90}

\* errors that may reach the catch block of process()
ThrownErrors ==
    FnErrors
        \cup {parsePDF(outcome) : outcome \in OcrOutcomes \ {[kind |-> "text"]}}
        \cup {EmptyResponseError, FallbackEmptyError, PineconeError, StoreError,
              BareError, CodeOnlyError,
              EmbedErrorOf(EmbedRateLimited), AbortTimeoutError}
        \cup {BadRequest(createBlockedErrorMessage(side, d)) :
                    side \in Sides, d \in CriticalDetections}
        \cup {ScreeningBlockedError(side, <<"pi_and_jailbreak">>) : side \in Sides}
        \cup {PromptsBlockedError(stage, <<"pi_and_jailbreak">>) : stage \in PromptStages}

\* the job record while the given stage runs
JobInStage(stage) == updateJobProgress(createJob, StageProgress(stage), StageLabel(stage), 1)

Probe_failJob ==
    /\ probe = NoProbe
    /\ \E error \in ThrownErrors, stage \in {Stages[i] : i \in 1..Len(Stages)} :
          probe' = [op |-> "failJob", error |-> error, stage |-> stage,
                    before |-> JobInStage(stage),
                    after |-> failJob(JobInStage(stage), error, InferStage(error))]
    /\ UNCHANGED pipeline

NextFail == Probe_failJob

SpecFail == Init /\ [][NextFail]_vars

(***************************************************************************)
(* RagService.embedText called on its own, against every behaviour of the  *)
(* embedding provider over the attempts                                    *)
(***************************************************************************)
Probe_embedText ==
    /\ probe = NoProbe
    /\ \E script \in EmbedScripts :
          probe' = [op |-> "embedText", script |-> script, result |-> embedText(script)]
    /\ UNCHANGED pipeline

NextEmbed == Probe_embedText

SpecEmbed == Init /\ [][NextEmbed]_vars

(***************************************************************************)
(* Several evaluation requests and the worker runs of their jobs side by   *)
(* side: EvaluationController.evaluate, the Job Store collection keyed by  *)
(* job_id, and the queue entries.  Every await of evaluate() and every     *)
(* Job Store call of process() is a step of its own, so the requests and   *)
(* the runs interleave at each of them.                                    *)
(***************************************************************************)
\* the ids generateJobId gives to the requests (job_id is a unique index)
JobIds == {"eval_job_1", "eval_job_2"}

\* NotFoundException of DocumentsService.getDocumentById
NotFoundError == [message |-> <<"Document with ID", "not found">>, code |-> "", status |-> 404]

\* queue.add rejects: the connection to Redis is closed
QueueError == [message |-> <<"Connection is closed">>, code |-> "", status |-> 0]

\* an update that is applied to every record of the collection
updateOne_unfiltered(store, jobId, record) ==
    [k \in DOMAIN store |-> IF store[k] = Absent THEN Absent ELSE record]

\* Model.updateOne({ job_id: jobId }, { $set }): record is the matched
\* document after the $set; nothing is written when no document matches
updateOne(store, jobId, record) ==
    IF store[jobId] = Absent THEN store ELSE [store EXCEPT ![jobId] = record]

\* new Model({ job_id: jobId, ... }).save()
save(store, jobId, record) == [store EXCEPT ![jobId] = record]

\* evaluate() that goes on whether or not the document was found
AfterLookup_unchecked(request, found, next) ==
    [request EXCEPT !.step = next, !.lookups = Append(@, found)]

\* evaluate(): getDocumentById returns, or throws NotFoundException which
\* ends the request; lookups keeps what each lookup found
AfterLookup(request, found, next) ==
    IF found THEN [request EXCEPT !.step = next, !.lookups = Append(@, found)]
    ELSE [request EXCEPT !.step = "rejected", !.error = NotFoundError,
                         !.lookups = Append(@, found)]

\* errors thrown by the work of a stage
StageErrors ==
    {OcrError(<<"Service unavailable">>),
     BadRequest(createBlockedErrorMessage("cv",
         CHOOSE d \in CriticalDetections : Includes(d.reason, "Project"))),
     RateLimitError}

IdleRun == [stage |-> 0, step |-> "idle", found |-> Absent, error |-> Null]

\* the requests arrive
Service_start ==
    /\ probe = NoProbe
    /\ probe' = [op |-> "evaluate",
                 store |-> [k \in JobIds |-> Absent],
                 entries |-> [k \in JobIds |-> "none"],
                 request |-> [k \in JobIds |-> [step |-> "lookupCv", error |-> Null,
                                                 lookups |-> <<>>]],
                 run |-> [k \in JobIds |-> IdleRun],
                 last |-> [by |-> "none", job |-> "none"]]
    /\ UNCHANGED pipeline

\* evaluate(): documentsService.getDocumentById(dto.cv_id)
Request_lookupCv(k) ==
    /\ probe.op = "evaluate"
    /\ probe.request[k].step = "lookupCv"
    /\ \E found \in BOOLEAN :
          probe' = [probe EXCEPT !.request[k] = AfterLookup(@, found, "lookupProject"),
                                 !.last = [by |-> "getDocumentById", job |-> k]]
    /\ UNCHANGED pipeline

\* evaluate(): documentsService.getDocumentById(dto.project_report_id)
Request_lookupProject(k) ==
    /\ probe.op = "evaluate"
    /\ probe.request[k].step = "lookupProject"
    /\ \E found \in BOOLEAN :
          probe' = [probe EXCEPT !.request[k] = AfterLookup(@, found, "createJob"),
                                 !.last = [by |-> "getDocumentById", job |-> k]]
    /\ UNCHANGED pipeline

\* evaluate(): evaluationService.createJob saves the record
Request_createJob(k) ==
    /\ probe.op = "evaluate"
    /\ probe.request[k].step = "createJob"
    /\ probe' = [probe EXCEPT !.store = save(@, k, createJob),
                              !.request[k].step = "add",
                              !.last = [by |-> "createJob", job |-> k]]
    /\ UNCHANGED pipeline

\* evaluate(): evaluationQueue.add resolves and the request is answered 202
Request_add(k) ==
    /\ probe.op = "evaluate"
    /\ probe.request[k].step = "add"
    /\ probe' = [probe EXCEPT !.entries[k] = "waiting",
                              !.request[k].step = "accepted",
                              !.last = [by |-> "add", job |-> k]]
    /\ UNCHANGED pipeline

\* evaluate(): evaluationQueue.add rejects and the rejection leaves evaluate()
Request_addRejects(k) ==
    /\ probe.op = "evaluate"
    /\ probe.request[k].step = "add"
    /\ probe' = [probe EXCEPT !.request[k] = [@ EXCEPT !.step = "rejected", !.error = QueueError],
                              !.last = [by |-> "add", job |-> k]]
    /\ UNCHANGED pipeline

\* a worker takes the waiting entry and calls process()
Worker_deliver(k) ==
    /\ probe.op = "evaluate"
    /\ probe.entries[k] = "waiting"
    /\ probe' = [probe EXCEPT !.entries[k] = "active",
                              !.run[k] = [IdleRun EXCEPT !.stage = 1, !.step = "findOne"],
                              !.last = [by |-> "deliver", job |-> k]]
    /\ UNCHANGED pipeline

\* updateJobProgress: findOne({ job_id })
Worker_findOne(k) ==
    /\ probe.op = "evaluate"
    /\ probe.run[k].step = "findOne"
    /\ probe' = [probe EXCEPT !.run[k].found = probe.store[k],
                              !.run[k].step = "updateOne",
                              !.last = [by |-> "findOne", job |-> k]]
    /\ UNCHANGED pipeline

\* updateJobProgress: updateOne({ job_id }, { $set: update })
Worker_updateOne(k) ==
    /\ probe.op = "evaluate"
    /\ probe.run[k].step = "updateOne"
    /\ LET stage == Stages[probe.run[k].stage]
       IN probe' = [probe EXCEPT
                       !.store = updateOne(@, k,
                                     ProgressSet(probe.run[k].found, @[k], StageProgress(stage),
                                                 StageLabel(stage), now)),
                          !.run[k].step = IF stage = "completing" THEN "completeJob" ELSE "work",
                       !.last = [by |-> "updateJobProgress", job |-> k]]
    /\ UNCHANGED pipeline

\* the work of the stage returns: process() goes on to the next commit
Worker_stageReturns(k) ==
    /\ probe.op = "evaluate"
    /\ probe.run[k].step = "work"
    /\ probe' = [probe EXCEPT !.run[k].stage = @ + 1,
                              !.run[k].step = "findOne",
                              !.last = [by |-> "stage", job |-> k]]
    /\ UNCHANGED pipeline

\* the work of the stage throws: control goes to the catch block
Worker_stageThrows(k) ==
    /\ probe.op = "evaluate"
    /\ probe.run[k].step = "work"
    /\ \E error \in StageErrors :
          probe' = [probe EXCEPT !.run[k].error = error,
                                 !.run[k].step = "catch",
                                 !.last = [by |-> "stage", job |-> k]]
    /\ UNCHANGED pipeline

\* process(): completeJob(job_id, result), then process() returns
Worker_completeJob(k) ==
    /\ probe.op = "evaluate"
    /\ probe.run[k].step = "completeJob"
    /\ probe' = [probe EXCEPT
                    !.store = updateOne(@, k, completeJob(@[k], "result", now)),
                    !.run[k].step = "returned",
                    !.entries[k] = "completed",
                    !.last = [by |-> "completeJob", job |-> k]]
    /\ UNCHANGED pipeline

\* process(): the catch block calls failJob(job_id, error, stage) and rethrows
Worker_failJob(k) ==
    /\ probe.op = "evaluate"
    /\ probe.run[k].step = "catch"
    /\ probe' = [probe EXCEPT
                    !.store = updateOne(@, k, failJob(@[k], probe.run[k].error,
                                                      InferStage(probe.run[k].error))),
                    !.run[k].step = "aborted",
                    !.entries[k] = "failed",
                    !.last = [by |-> "failJob", job |-> k]]
    /\ UNCHANGED pipeline

NextService ==
    \/ Service_start
    \/ \E k \in JobIds : Request_lookupCv(k)
    \/ \E k \in JobIds : Request_lookupProject(k)
    \/ \E k \in JobIds : Request_createJob(k)
    \/ \E k \in JobIds : Request_add(k)
    \/ \E k \in JobIds : Request_addRejects(k)
    \/ \E k \in JobIds : Worker_deliver(k)
    \/ \E k \in JobIds : Worker_findOne(k)
    \/ \E k \in JobIds : Worker_updateOne(k)
    \/ \E k \in JobIds : Worker_stageReturns(k)
    \/ \E k \in JobIds : Worker_stageThrows(k)
    \/ \E k \in JobIds : Worker_completeJob(k)
    \/ \E k \in JobIds : Worker_failJob(k)

SpecService == Init /\ [][NextService]_vars

(***************************************************************************)
(* The same requests and runs with a queue that hands the descriptor of a  *)
(* job whose run has ended to a worker again (the entry is retried, or an  *)
(* entry taken for stalled is put back to waiting while its run goes on to *)
(* its end); process() is then called as for a first delivery              *)
(***************************************************************************)
\* times the queue hands one descriptor to a worker again
MaxRedeliveries == 1

Redelivery_start ==
    /\ probe = NoProbe
    /\ probe' = [op |-> "evaluate",
                 store |-> [k \in JobIds |-> Absent],
                 entries |-> [k \in JobIds |-> "none"],
                 request |-> [k \in JobIds |-> [step |-> "lookupCv", error |-> Null,
                                                 lookups |-> <<>>]],
                 run |-> [k \in JobIds |-> IdleRun],
                 redeliveries |-> [k \in JobIds |-> 0],
                 last |-> [by |-> "none", job |-> "none"]]
    /\ UNCHANGED pipeline

\* the entry of a run that has ended is put back to waiting
Queue_redeliver(k) ==
    /\ probe.op = "evaluate"
    /\ "redeliveries" \in DOMAIN probe
    /\ probe.entries[k] \in {"completed", "failed"}
    /\ probe.redeliveries[k] < MaxRedeliveries
    /\ probe' = [probe EXCEPT !.entries[k] = "waiting",
                              !.redeliveries[k] = @ + 1,
                              !.last = [by |-> "redeliver", job |-> k]]
    /\ UNCHANGED pipeline

NextRedeliver ==
    \/ Redelivery_start
    \/ \E k \in JobIds : Request_lookupCv(k)
    \/ \E k \in JobIds : Request_lookupProject(k)
    \/ \E k \in JobIds : Request_createJob(k)
    \/ \E k \in JobIds : Request_add(k)
    \/ \E k \in JobIds : Request_addRejects(k)
    \/ \E k \in JobIds : Worker_deliver(k)
    \/ \E k \in JobIds : Worker_findOne(k)
    \/ \E k \in JobIds : Worker_updateOne(k)
    \/ \E k \in JobIds : Worker_stageReturns(k)
    \/ \E k \in JobIds : Worker_stageThrows(k)
    \/ \E k \in JobIds : Worker_completeJob(k)
    \/ \E k \in JobIds : Worker_failJob(k)
    \/ \E k \in JobIds : Queue_redeliver(k)

SpecRedeliver == Init /\ [][NextRedeliver]_vars

(***************************************************************************)
(* Two requests to evaluate the same two documents, and the runs of the   *)
(* parsing stages of their jobs: evaluate() is accepted at any time, and  *)
(* up to MaxWorkers runs of process() are in progress at a time           *)
(***************************************************************************)
\* a run of process() that has been called and has not ended
InProgress(run) == run.step \notin {"idle", "returned", "aborted"}

\* the side whose document the stage parses
ParsedSide(stage) == IF Stages[stage] = "cv_parsing" THEN "cv" ELSE "project"

IsParsing(stage) == Stages[stage] \in {"cv_parsing", "project_parsing"}

\* errors that leave evaluateCV / evaluateProject / synthesizeResults
WorkErrors(stage) ==
    IF Stages[stage] = "synthesis" THEN {RateLimitError}
    ELSE {RateLimitError, PineconeError}

\* what the detection provider is taken to answer in these runs
RunDetections == {ProviderFailure} \cup CriticalDetections

\* the two requests arrive; each Document holds a text or not; extractions
\* counts the calls of parsePDF on the document that returned a text
Documents_start ==
    /\ probe = NoProbe
    /\ \E held \in [Sides -> BOOLEAN] :
          probe' = [op |-> "evaluate",
                    docs |-> [s \in Sides |-> [cached |-> held[s], extractions |-> 0]],
                    store |-> [k \in JobIds |-> Absent],
                    entries |-> [k \in JobIds |-> "none"],
                    request |-> [k \in JobIds |-> [step |-> "lookupCv", error |-> Null,
                                                    lookups |-> <<>>]],
                    run |-> [k \in JobIds |-> IdleRun],
                    document |-> [k \in JobIds |-> Null],
                    overlapped |-> FALSE,
                    last |-> [by |-> "none", job |-> "none"]]
    /\ UNCHANGED pipeline

\* a worker takes the waiting entry and calls process(), which opens with
\* updateJobProgress; overlapped records that another run was in progress
Run_deliver(k) ==
    /\ probe.op = "evaluate"
    /\ probe.entries[k] = "waiting"
    /\ probe' = [probe EXCEPT
                    !.entries[k] = "active",
                    !.run[k] = [IdleRun EXCEPT !.stage = 1, !.step = "findOne"],
                    !.overlapped = @ \/ \E j \in JobIds : InProgress(probe.run[j]),
                    !.last = [by |-> "deliver", job |-> k]]
    /\ UNCHANGED pipeline

\* parseCV / parseProject: getDocumentById returns the Document as it is now
Run_getDocumentById(k) ==
    /\ probe.op = "evaluate"
    /\ probe.run[k].step = "work"
    /\ IsParsing(probe.run[k].stage)
    /\ probe' = [probe EXCEPT
                    !.document[k] = probe.docs[ParsedSide(probe.run[k].stage)],
                    !.run[k].step = "screenPDF",
                    !.last = [by |-> "getDocumentById", job |-> k]]
    /\ UNCHANGED pipeline

\* parseCV / parseProject: screenPDF returns; a blocked file throws, and
\* otherwise the text is looked for on the Document that was returned
Run_screenPDF(k) ==
    /\ probe.op = "evaluate"
    /\ probe.run[k].step = "screenPDF"
    /\ \E outcome \in ScreenerOutcomes :
          LET result == ScreeningResultOf(outcome)
              side == ParsedSide(probe.run[k].stage)
          IN probe' = [probe EXCEPT
                          !.run[k] = IF IsBlocked(result)
                                     THEN [probe.run[k] EXCEPT
                                              !.step = "catch",
                                              !.error = ScreeningBlockedError(side,
                                                                              result.reasons)]
                                     ELSE [probe.run[k] EXCEPT
                                              !.step = IF NeedsExtraction(probe.document[k])
                                                       THEN "parsePDF"
                                                       ELSE "detectInjectionWithAI"],
                          !.last = [by |-> "screenPDF", job |-> k]]
    /\ UNCHANGED pipeline

\* parseCV / parseProject: parsePDF returns the parsed content, or throws
Run_parsePDF(k) ==
    /\ probe.op = "evaluate"
    /\ probe.run[k].step = "parsePDF"
    /\ \E outcome \in OcrOutcomes :
          probe' = IF parsePDF(outcome) = Null
                   THEN [probe EXCEPT
                            !.docs[ParsedSide(probe.run[k].stage)].extractions = @ + 1,
                            !.run[k].step = "updateDocumentParsedContent",
                            !.last = [by |-> "parsePDF", job |-> k]]
                   ELSE [probe EXCEPT
                            !.run[k].step = "catch",
                            !.run[k].error = parsePDF(outcome),
                            !.last = [by |-> "parsePDF", job |-> k]]
    /\ UNCHANGED pipeline

\* parseCV / parseProject: updateDocumentParsedContent stores the text on
\* the Document, or its updateOne rejects and the rejection leaves the stage
Run_updateDocumentParsedContent(k) ==
    /\ probe.op = "evaluate"
    /\ probe.run[k].step = "updateDocumentParsedContent"
    /\ \E stored \in BOOLEAN :
          probe' = IF stored
                   THEN [probe EXCEPT
                            !.docs[ParsedSide(probe.run[k].stage)].cached = TRUE,
                            !.run[k].step = "detectInjectionWithAI",
                            !.last = [by |-> "updateDocumentParsedContent", job |-> k]]
                   ELSE [probe EXCEPT
                            !.run[k].step = "catch",
                            !.run[k].error = StoreError,
                            !.last = [by |-> "updateDocumentParsedContent", job |-> k]]
    /\ UNCHANGED pipeline

\* parseCV / parseProject: detectInjectionWithAI on the text, then
\* handleCVDetection / handleProjectDetection, which throws or returns
Run_detectInjectionWithAI(k) ==
    /\ probe.op = "evaluate"
    /\ probe.run[k].step = "detectInjectionWithAI"
    /\ \E outcome \in RunDetections :
          LET side == ParsedSide(probe.run[k].stage)
              verdict == detectInjectionWithAI(ExtractedText, side, outcome).result
          IN probe' = IF handleDetectionThrows(side, verdict)
                      THEN [probe EXCEPT
                               !.run[k].step = "catch",
                               !.run[k].error =
                                   BadRequest(createBlockedErrorMessage(side, verdict)),
                               !.last = [by |-> "detectInjectionWithAI", job |-> k]]
                      ELSE [probe EXCEPT
                               !.run[k].step = "structure",
                               !.last = [by |-> "detectInjectionWithAI", job |-> k]]
    /\ UNCHANGED pipeline

\* the stage returns (structuring never throws): process() goes on to the
\* next updateJobProgress
Run_stageReturns(k) ==
    /\ probe.op = "evaluate"
    /\ \/ probe.run[k].step = "structure"
       \/ probe.run[k].step = "work" /\ ~IsParsing(probe.run[k].stage)
    /\ probe' = [probe EXCEPT !.run[k].stage = @ + 1,
                              !.run[k].step = "findOne",
                              !.document[k] = Null,
                              !.last = [by |-> "stage", job |-> k]]
    /\ UNCHANGED pipeline

\* evaluateCV / evaluateProject / synthesizeResults throws
Run_stageThrows(k) ==
    /\ probe.op = "evaluate"
    /\ probe.run[k].step = "work"
    /\ ~IsParsing(probe.run[k].stage)
    /\ \E error \in WorkErrors(probe.run[k].stage) :
          probe' = [probe EXCEPT !.run[k].error = error,
                                 !.run[k].step = "catch",
                                 !.last = [by |-> "stage", job |-> k]]
    /\ UNCHANGED pipeline

NextDocuments ==
    \/ Documents_start
    \/ \E k \in JobIds : Request_lookupCv(k)
    \/ \E k \in JobIds : Request_lookupProject(k)
    \/ \E k \in JobIds : Request_createJob(k)
    \/ \E k \in JobIds : Request_add(k)
    \/ \E k \in JobIds : Request_addRejects(k)
    \/ \E k \in JobIds : Run_deliver(k)
    \/ \E k \in JobIds : Worker_findOne(k)
    \/ \E k \in JobIds : Worker_updateOne(k)
    \/ \E k \in JobIds : Run_getDocumentById(k)
    \/ \E k \in JobIds : Run_screenPDF(k)
    \/ \E k \in JobIds : Run_parsePDF(k)
    \/ \E k \in JobIds : Run_updateDocumentParsedContent(k)
    \/ \E k \in JobIds : Run_detectInjectionWithAI(k)
    \/ \E k \in JobIds : Run_stageReturns(k)
    \/ \E k \in JobIds : Run_stageThrows(k)
    \/ \E k \in JobIds : Worker_completeJob(k)
    \/ \E k \in JobIds : Worker_failJob(k)

SpecDocuments == Init /\ [][NextDocuments]_vars

(***************************************************************************)
(* ModelArmorService.screenPDF / screenPrompt / screenResponse called on   *)
(* their own, under every configuration of the service and every outcome   *)
(* of the sanitize request                                                 *)
(***************************************************************************)
ScreenContexts == {"pdf", "prompt", "response"}

\* the service as constructed: MODEL_ARMOR enabled, a template id
\* configured, the client created
ScreenerConfigs == [enabled : BOOLEAN, templateId : BOOLEAN, client : BOOLEAN]

\* the guard that opens each screen* method
ScreeningSkipped(config) == ~config.enabled \/ ~config.templateId \/ ~config.client

\* a screening that reports a failed sanitize request as a violation
screen_failClosed(context, config, text, outcome) ==
    IF ScreeningSkipped(config) THEN NoVerdict
    ELSE IF context # "pdf" /\ IsBlankText(text) THEN NoVerdict
    ELSE IF outcome = ScreenerFailure
         THEN [blocked |-> TRUE, reasons |-> <<"screening unavailable">>]
    ELSE ScreeningResultOf(outcome)

\* screenPDF(filePath), screenPrompt(prompt), screenResponse(response): the
\* ScreeningResult returned; text is the prompt or the response
screen(context, config, text, outcome) ==
    IF ScreeningSkipped(config) THEN NoVerdict
    ELSE IF context # "pdf" /\ IsBlankText(text) THEN NoVerdict
    ELSE ScreeningResultOf(outcome)

Probe_screen ==
    /\ probe = NoProbe
    /\ \E context \in ScreenContexts, config \in ScreenerConfigs, text \in Texts,
          outcome \in ScreenerOutcomes :
          probe' = [op |-> "screen", context |-> context, config |-> config,
                    text |-> text, outcome |-> outcome,
                    result |-> screen(context, config, text, outcome)]
    /\ UNCHANGED pipeline

NextScreen == Probe_screen

SpecScreen == Init /\ [][NextScreen]_vars

(***************************************************************************)
(* RagService.chunkText called on its own.  A string is the sequence of    *)
(* its characters and a chunk's content the sequence of the words that     *)
(* join(' ') puts together.                                                *)
(***************************************************************************)
MaxChunkTextLen == 6

MaxChunkSize == 4

\* the default of the overlap parameter
DefaultOverlap == 100

ChunkTexts == UNION {[1..n -> Chars] : n \in 0..MaxChunkTextLen}

ChunkSizes == 1..MaxChunkSize

\* text.split(/\s+/): the pieces between runs of whitespace, the empty
\* piece before a leading run and after a trailing one included
RECURSIVE SplitFrom(_, _, _, _, _)
SplitFrom(text, i, words, current, afterSpace) ==
    IF i > Len(text) THEN Append(words, current)
    ELSE IF text[i] = " "
         THEN IF afterSpace THEN SplitFrom(text, i + 1, words, current, TRUE)
              ELSE SplitFrom(text, i + 1, Append(words, current), <<>>, TRUE)
         ELSE SplitFrom(text, i + 1, words, Append(current, text[i]), FALSE)

SplitWords(text) == SplitFrom(text, 1, <<>>, <<>>, FALSE)

\* words.join(' ').length
\* words.slice(-count); -0 is 0, and slice(0) copies the whole list
LastWords(words, count) ==
    IF count = 0 \/ count >= Len(words) THEN words
    ELSE SubSeq(words, Len(words) - count + 1, Len(words))

\* chunkText: one iteration of the loop over the words
ChunkStep(st, word, chunkSize, overlap) ==
    LET wordLength == Len(word) + 1
        saved == IF st.currentLength + wordLength > chunkSize /\ st.currentChunk # <<>>
                 THEN [chunks |-> Append(st.chunks, [content |-> st.currentChunk,
                                                     chunk_index |-> st.chunkIndex]),
                       currentChunk |-> LastWords(st.currentChunk, overlap),
                       currentLength |-> JoinedLength(LastWords(st.currentChunk, overlap)),
                       chunkIndex |-> st.chunkIndex + 1]
                 ELSE st
    IN [saved EXCEPT !.currentChunk = Append(@, word),
                     !.currentLength = @ + wordLength]

RECURSIVE ChunkLoop(_, _, _, _, _)
ChunkLoop(st, words, i, chunkSize, overlap) ==
    IF i > Len(words) THEN st
    ELSE ChunkLoop(ChunkStep(st, words[i], chunkSize, overlap), words, i + 1,
                   chunkSize, overlap)

\* RagService.chunkText
chunkText(text, chunkSize, overlap) ==
    LET st == ChunkLoop([chunks |-> <<>>, currentChunk |-> <<>>, currentLength |-> 0,
                         chunkIndex |-> 0],
                        SplitWords(text), 1, chunkSize, overlap)
    IN IF st.currentChunk # <<>>
       THEN Append(st.chunks, [content |-> st.currentChunk, chunk_index |-> st.chunkIndex])
       ELSE st.chunks

Probe_chunkText ==
    /\ probe = NoProbe
    /\ \E text \in ChunkTexts, chunkSize \in ChunkSizes :
          probe' = [op |-> "chunkText", text |-> text, chunkSize |-> chunkSize,
                    words |-> SplitWords(text),
                    chunks |-> chunkText(text, chunkSize, DefaultOverlap)]
    /\ UNCHANGED pipeline

NextChunk == Probe_chunkText

SpecChunk == Init /\ [][NextChunk]_vars

(***************************************************************************)
(* Properties                                                              *)
(***************************************************************************)
Terminal == {"completed", "failed"}

\* the run of process() has ended: it returned, or it rejected
RunEnded == pc.step \in {"returned", "aborted"}

\* the (label, progress) pairs committed by the current run, in order
CommitsOf(t) ==
    LET commits == SelectSeq(t, LAMBDA e : e.kind = "commit")
    IN  [i \in 1..Len(commits) |-> <<commits[i].name, commits[i].progress>>]

\* C1: in every state where the job is completed or failed, exactly one of
\* result and error is set: completed has a result and no error, failed has
\* an error and no result.
C1_ResultXorError ==
    /\ job.status = "completed" => (job.result # Null /\ job.error = Null)
    /\ job.status = "failed" => (job.error # Null /\ job.result = Null)

\* C1 witness: the run ended on a blocked project report after the CV was
\* scored; the record is failed and holds the error and no result.
C1_Witness ==
    /\ pc = [stage |-> "project_parsing", step |-> "aborted"]
    /\ detection # Null
    /\ detection.detected
    /\ job.status = "failed"
    /\ job.error # Null
    /\ job.result = Null

\* C2: the progress_percentage stored in the Job Store never decreases over
\* the job's lifetime and always lies in 0..100.
C2_ProgressMonotone ==
    [][/\ job'.progress_percentage >= job.progress_percentage
       /\ job'.progress_percentage \in 0..100]_vars

\* C2 witness: the job failed in the synthesis stage; the record keeps the
\* 85 committed on entering the stage.
C2_Witness ==
    /\ pc = [stage |-> "synthesis", step |-> "aborted"]
    /\ job.status = "failed"
    /\ job.progress_percentage = 85

\* C3: a run that reaches completed has committed exactly (cv_parsing,10),
\* (cv_evaluation,30), (project_parsing,50), (project_evaluation,65),
\* (synthesis,85), (completing,95) and then completed at 100, in this order;
\* every external call of a stage comes after that stage's commit, and
\* nothing of an earlier stage comes after something of a later one.
C3_CommitSequence ==
    pc.step = "returned" =>
        /\ CommitsOf(trace) = << <<"cv_parsing", 10>>, <<"cv_evaluation", 30>>,
                                 <<"project_parsing", 50>>, <<"project_evaluation", 65>>,
                                 <<"synthesis", 85>>, <<"completing", 95>>,
                                 <<"completed", 100>> >>
        /\ \A i \in 1..Len(trace) :
              trace[i].kind = "call" =>
                  \E k \in 1..(i - 1) : /\ trace[k].kind = "commit"
                                        /\ trace[k].stage = trace[i].stage
        /\ \A i, k \in 1..Len(trace) :
              i < k => StageIndex(trace[i].stage) <= StageIndex(trace[k].stage)

\* C4: once a job is completed or failed, no step changes its status,
\* result or error, also when the queue delivers its descriptor again.
C4_TerminalWrittenOnce ==
    [][/\ job.status \in Terminal =>
             /\ job'.status = job.status
             /\ job'.result = job.result
             /\ job'.error = job.error
       /\ (probe # NoProbe /\ probe.op = "evaluate") =>
             \A k \in JobIds :
                (probe.store[k] # Absent /\ probe.store[k].status \in Terminal) =>
                   /\ probe'.store[k].status = probe.store[k].status
                   /\ probe'.store[k].result = probe.store[k].result
                   /\ probe'.store[k].error = probe.store[k].error]_vars


\* the external calls the current run has made so far
CallsOf(t) == SelectSeq(t, LAMBDA e : e.kind = "call")

\* the Generation Client calls for scoring made by the current run
ScoringCallsOf(t) ==
    SelectSeq(t, LAMBDA e : /\ e.kind = "call"
                            /\ e.name = "generate"
                            /\ e.stage \in {"cv_evaluation", "project_evaluation"})

\* C5: when a stage's error has escaped and the run has ended, the job is
\* failed with an error record and without a result, and the run has made
\* no commit and no external call of a stage after the failing one.
C5_AbortOnStageError ==
    pc.step = "aborted" =>
        /\ job.status = "failed"
        /\ job.error # Null
        /\ job.error.message = err.message
        /\ job.result = Null
        /\ \A i \in 1..Len(trace) : StageIndex(trace[i].stage) <= StageIndex(pc.stage)

\* C5 witness: project parsing failed after the CV scores were computed.
C5_Witness ==
    /\ pc = [stage |-> "project_parsing", step |-> "aborted"]
    /\ cvResult # Null
    /\ job.status = "failed"

\* C6: once the job has been committed failed, no stage runs again and no
\* further external call is made for it.
C6_PipelineAtMostOnce == [][failedOnce => UNCHANGED <<pc, trace>>]_vars

\* C6 witness: the job failed on a blocked CV; the descriptor is failed in
\* the queue and the run made no call after the detection.
C6_Witness ==
    /\ failedOnce
    /\ pc = [stage |-> "cv_parsing", step |-> "aborted"]
    /\ detection # Null
    /\ detection.detected
    /\ err = BadRequest(createBlockedErrorMessage("cv", detection))
    /\ queue = "failed"

\* C7: started_at, once set, is never overwritten, and every step that
\* leaves the job in a status other than queued leaves started_at set.
C7_StartedAtOnce ==
    [][/\ job.started_at # Unset => job'.started_at = job.started_at
       /\ job'.status # "queued" => job'.started_at # Unset]_vars

\* C8: whenever a worker holds the job, the job later reaches the status
\* completed or failed.
C8_ReachesTerminal == (queue = "active") ~> (job.status \in Terminal)

\* the detector has reported a detection with confidence 0.9 on the CV text
CVDetectedAt90 ==
    /\ pc.stage = "cv_parsing"
    /\ detection # Null
    /\ detection.detected
    /\ detection.confidence = 90

\* C9: in the run where the detector reports a detection with confidence
\* 0.9 on the CV text, structuring is never reached, no Generation Client
\* call for scoring has been made, and the run ends with the job failed
\* with the security-blocked error.
C9_InjectionBlockedBeforeScoring ==
    CVDetectedAt90 =>
        /\ pc.step \in {"handleDetection", "catch", "aborted"}
        /\ ScoringCallsOf(trace) = <<>>
        /\ pc.step = "catch" => err = BadRequest(createBlockedErrorMessage("cv", detection))
        /\ pc.step = "aborted" =>
              /\ job.status = "failed"
              /\ job.error.message = createBlockedErrorMessage("cv", detection)

\* C9 witness: the run has ended on a low-severity detection at 0.9.
C9_Witness ==
    /\ CVDetectedAt90
    /\ detection.severity = "low"
    /\ pc.step = "aborted"
    /\ job.status = "failed"

\* the block predicate of each profile, as the specification states it
BlockPredicate(side, d) ==
    IF side = "cv"
    THEN d.severity \in {"critical", "high"} \/ d.confidence >= 30
    ELSE d.severity = "critical" \/ d.confidence >= 60

\* C10: for a reported detection, the parsing stage aborts the job exactly
\* when the profile's block predicate holds, and goes on to structuring for
\* every detection below the threshold.
C10_BlockExactlyAtThreshold ==
    \A side \in Sides :
        (/\ pc.stage = ParsingStage(side)
         /\ detection # Null
         /\ detection.detected
         /\ pc.step # "handleDetection")
        => IF BlockPredicate(side, detection)
           THEN /\ pc.step \in {"catch", "aborted"}
                /\ err = BadRequest(createBlockedErrorMessage(side, detection))
                /\ pc.step = "aborted" => job.status = "failed"
           ELSE /\ pc.step = "structure"
                /\ err = Null

\* C10 witness: a high-severity detection at 0.59 passes the project profile
\* and the stage has gone on to structuring.
C10_Witness ==
    /\ pc = [stage |-> "project_parsing", step |-> "structure"]
    /\ detection # Null
    /\ detection.detected
    /\ detection.severity = "high"
    /\ detection.confidence = 59
    /\ gen.phase = "primary"

\* the CV parsing stage has acted on a reported detection
CVDetectionHandled ==
    /\ pc.stage = "cv_parsing"
    /\ detection # Null
    /\ detection.detected
    /\ pc.step # "handleDetection"

\* the CV parsing stage has thrown the security-blocked error
CVBlocked ==
    /\ pc.step \in {"catch", "aborted"}
    /\ err = BadRequest(createBlockedErrorMessage("cv", detection))

\* C11 (as the code has it): under the CV profile a detection of severity
\* low or medium does not block at confidence 0.29 and blocks at 0.30 (the
\* boundary is inclusive); a detection of severity high blocks at both.
C11_CvBoundaryInclusive ==
    CVDetectionHandled =>
        /\ (detection.severity \in {"low", "medium"} /\ detection.confidence = 29)
              => (pc.step = "structure" /\ err = Null)
        /\ (detection.severity \in {"low", "medium"} /\ detection.confidence = 30)
              => CVBlocked
        /\ (detection.severity = "high" /\ detection.confidence \in {29, 30})
              => CVBlocked

\* C11 witness: a medium-severity detection at exactly 0.30 has ended the run.
C11_Witness ==
    /\ CVDetectionHandled
    /\ detection.severity = "medium"
    /\ detection.confidence = 30
    /\ pc.step = "aborted"
    /\ job.status = "failed"

\* C11 as stated: under the CV profile a detection with severity high does
\* not block at confidence 0.29 and blocks at confidence 0.30.
C11_HighAt29Passes ==
    (CVDetectionHandled /\ detection.severity = "high") =>
        /\ detection.confidence = 29 => (pc.step = "structure" /\ err = Null)
        /\ detection.confidence = 30 => CVBlocked

\* the detection provider failed in the current parsing stage
DetectorFailedOpen == detection = DetectionFailed

\* C12: when the detection provider call fails on the extracted text, the
\* detector returns a non-detection (detected false, confidence 0) under
\* both profiles and raises nothing, and the parsing stage goes on to
\* structuring as for clean text: no error is thrown in that stage.
C12_DetectorFailsOpen ==
    /\ \A side \in Sides :
          LET r == detectInjectionWithAI(ExtractedText, side, ProviderFailure).result
          IN  ~r.detected /\ r.confidence = 0
    /\ \A side \in Sides :
          (pc.stage = ParsingStage(side) /\ detection # Null /\ DetectorFailedOpen)
          => /\ ~detection.detected
             /\ detection.confidence = 0
             /\ pc.step \in {"handleDetection", "structure"}
             /\ err = Null

\* C12 witness: the project's detection failed and structuring is running.
C12_Witness ==
    /\ pc = [stage |-> "project_parsing", step |-> "structure"]
    /\ detection # Null
    /\ DetectorFailedOpen
    /\ gen.phase = "primary"

\* C13: for an empty or whitespace-only text, under both profiles and
\* whatever the provider would answer, detect returns detected false with
\* confidence 0, makes no request to the detection provider, and a second
\* call returns the same result.
C13_EmptyTextShortCircuits ==
    (probe.op = "detectInjectionWithAI" /\ \A i \in 1..Len(probe.text) : probe.text[i] = " ")
    => /\ ~probe.first.result.detected
       /\ probe.first.result.confidence = 0
       /\ probe.first.requests = 0
       /\ probe.second = probe.first

\* C13 witness: a whitespace-only text for which the provider, had it been
\* asked, would have reported a critical detection.
C13_Witness ==
    /\ probe.op = "detectInjectionWithAI"
    /\ probe.text = <<" ", " ">>
    /\ probe.context = "cv"
    /\ probe.first.requests = 0
    /\ \E outcome \in Detections :
          /\ outcome.detected
          /\ outcome.severity = "critical"
          /\ probe.first = detectInjectionWithAI(probe.text, "cv", outcome)

\* the calls of the given names made by the work of stage in this run
StageCalls(stage, names) ==
    SelectSeq(trace, LAMBDA e : e.kind = "call" /\ e.stage = stage /\ e.name \in names)

\* C14: when the Safety Screener blocks the raw file of a document, its
\* parsing stage throws the 'blocked by security screening' error, the job
\* is failed with it, and no text extraction, text caching, injection
\* detection or structuring call has been made for that document.
C14_BlockedFileAborts ==
    \A side \in Sides :
        (pc.stage = ParsingStage(side) /\ screening.pdf.blocked)
        => /\ pc.step \in {"catch", "aborted"}
           /\ err = ScreeningBlockedError(side, screening.pdf.reasons)
           /\ Includes(err.message, "blocked by security screening")
           /\ StageCalls(ParsingStage(side),
                         {"parsePDF", "updateDocumentParsedContent",
                          "detectInjectionWithAI", "structure"}) = <<>>
           /\ pc.step = "aborted" =>
                 /\ job.status = "failed"
                 /\ job.error.message = err.message

\* C14 witness: the project report was blocked after the CV was scored.
C14_Witness ==
    /\ pc = [stage |-> "project_parsing", step |-> "aborted"]
    /\ screening.pdf.blocked
    /\ cvResult # Null
    /\ job.status = "failed"

\* both prompts of the running stage have been screened
PromptsScreened ==
    /\ pc.stage \in PromptStages
    /\ pc.step \notin {"commit", "updateOne", "queryContext", "queryRubric",
                        "screenSystemPrompt", "screenUserPrompt"}

\* C15: in cv_evaluation, project_evaluation and synthesis, when the
\* system prompt or the user prompt is blocked, the stage throws before any
\* Generation Client call of that stage, the job is failed, and the reasons
\* in the error are those of the blocked system prompt followed by those of
\* the blocked user prompt.
C15_BlockedPromptAborts ==
    (PromptsScreened /\ (screening.system.blocked \/ screening.user.blocked))
    => /\ pc.step \in {"catch", "aborted"}
       /\ err = PromptsBlockedError(pc.stage,
                    (IF screening.system.blocked THEN screening.system.reasons ELSE <<>>)
                    \o (IF screening.user.blocked THEN screening.user.reasons ELSE <<>>))
       /\ StageCalls(pc.stage, {"generate"}) = <<>>
       /\ pc.step = "aborted" =>
             /\ job.status = "failed"
             /\ job.error.message = err.message

\* C15 witness: both synthesis prompts were blocked, for different reasons.
C15_Witness ==
    /\ pc = [stage |-> "synthesis", step |-> "aborted"]
    /\ screening.system.reasons = <<"pi_and_jailbreak">>
    /\ screening.user.reasons = <<"malicious_uris", "rai">>
    /\ job.status = "failed"

\* C16: when the generated synthesis text is empty or whitespace-only, or
\* when the Safety Screener blocks it, the summary is the fixed fallback
\* sentence, the run goes on to completion and the completed job's
\* overall_summary is that sentence; for an empty text no response
\* screening call is made.
C16_SummaryFallback ==
    (/\ pc.stage = "completing"
     /\ summary # Null
     /\ summary.generated \in {"", "   "} \/ screening.response.blocked)
    => /\ summary.text = FallbackSummary
       /\ summary.generated \in {"", "   "} =>
             StageCalls("synthesis", {"screenResponse"}) = <<>>
       /\ pc.step \in {"commit", "updateOne", "completeJob", "returned"}
       /\ pc.step = "returned" =>
             /\ job.status = "completed"
             /\ job.result # Null
             /\ job.result.overall_summary = FallbackSummary

\* C16 witness: a generated summary was blocked and the job has completed.
C16_Witness ==
    /\ pc = [stage |-> "completing", step |-> "returned"]
    /\ summary.generated = "summary text"
    /\ screening.response.blocked
    /\ job.status = "completed"

\* C17: however the structuring call of cv_parsing or project_parsing ends,
\* after its own retries, the stage returns: process() goes on to the next
\* stage's commit with no error thrown, and the stage's value is the raw
\* text together with the generated structure or, when the call failed,
\* with the basic structure.
C17_StructuringNeverFails ==
    [][(pc.step = "structure" /\ gen.phase # "idle" /\ gen'.phase = "idle")
       => /\ pc' = [stage |-> Stages[StageIndex(pc.stage) + 1], step |-> "commit"]
          /\ err' = Null
          /\ parsed' # Null
          /\ parsed'.rawText = ExtractedText
          /\ parsed'.structure \in {"structured", BasicStructure}]_vars

\* C17 witness: CV structuring failed and the CV evaluation stage is
\* querying the vector store.
C17_Witness ==
    /\ pc = [stage |-> "cv_evaluation", step |-> "queryRubric"]
    /\ parsed # Null
    /\ parsed.structure = BasicStructure
    /\ parsed.rawText = ExtractedText
    /\ job.current_stage = "cv_evaluation"
    /\ err = Null

\* C18: when a retrieval query of a scoring stage is answered without any
\* match, query returns the empty list and raises nothing: the stage goes
\* on to its next step (the second query, then prompt screening) with no
\* error, and the Generation call is later made with that empty context.
C18_EmptyRetrievalProceeds ==
    [][(/\ pc.step \in QuerySteps
        /\ retrieved'[pc.step] # retrieved[pc.step]
        /\ retrieved'[pc.step].search # Null
        /\ retrieved'[pc.step].search.responded
        /\ retrieved'[pc.step].search.matches = <<>>)
       => /\ retrieved'[pc.step].chunks = <<>>
          /\ err' = Null
          /\ pc' = [stage |-> pc.stage, step |-> AfterQuery(pc.step)]]_vars

\* C18 witness: both queries of the CV evaluation found nothing and the
\* scoring Generation call is running.
C18_Witness ==
    /\ pc = [stage |-> "cv_evaluation", step |-> "generate"]
    /\ gen.phase = "primary"
    /\ retrieved.queryContext # Null
    /\ retrieved.queryRubric # Null
    /\ retrieved.queryContext.chunks = <<>>
    /\ retrieved.queryRubric.chunks = <<>>
    /\ err = Null

\* the errors the specification classifies as retryable
ClassifiedRetryable(error) ==
    \/ error.status \in {429, 500, 503}
    \/ error.code \in {"ETIMEDOUT", "ECONNRESET", "ENOTFOUND"}
    \/ Includes(error.message, "timeout")
    \/ Includes(error.message, "network")

\* C19: callWithRetry invokes the wrapped call at most 3 times; every
\* invocation after the first follows an error classified retryable and
\* exactly one sleep; the first success is returned with no further
\* invocation; an error that is not retryable is rethrown at once, with no
\* sleep and no further invocation (after exactly one attempt when it is
\* the first error).
C19_RetryLoop ==
    probe.op = "callWithRetry" =>
        /\ probe.invocations \in 1..3
        /\ probe.sleeps = probe.invocations - 1
        /\ Len(probe.errors) \in {probe.invocations - 1, probe.invocations}
        /\ \A i \in 1..Len(probe.errors) :
              i < probe.invocations => ClassifiedRetryable(probe.errors[i])
        /\ probe.phase = "sleeping" =>
              /\ Len(probe.errors) = probe.invocations
              /\ ClassifiedRetryable(probe.errors[Len(probe.errors)])
              /\ probe.invocations < 3
        /\ probe.phase = "returned" =>
              /\ probe.result = "value"
              /\ Len(probe.errors) = probe.invocations - 1
        /\ probe.phase = "thrown" =>
              /\ Len(probe.errors) = probe.invocations
              /\ probe.result = probe.errors[Len(probe.errors)]
              /\ ~ClassifiedRetryable(probe.result) \/ probe.invocations = 3
        /\ \A i \in 1..Len(probe.errors) :
              ~ClassifiedRetryable(probe.errors[i]) =>
                  /\ probe.phase = "thrown"
                  /\ i = Len(probe.errors)
                  /\ probe.invocations = i
                  /\ probe.sleeps = i - 1

\* C19 witness: two retryable errors of different classes, then success on
\* the third invocation.
C19_Witness ==
    /\ probe.op = "callWithRetry"
    /\ probe.phase = "returned"
    /\ probe.invocations = 3
    /\ probe.sleeps = 2
    /\ probe.errors = <<UnavailableError, NetworkMessageError>>

\* a first response that fails schema validation: generateObject resolved
\* without an object, or rejected with "No object generated"
ValidationFailures == {Resolved("none"), NoObjectError}

\* C20: in a schema-validated evaluation call, whenever the first (primary
\* model) response fails schema validation, be it empty or unparsable,
\* exactly one request is made to the second, faster model before the
\* function gives up; and when that request fails too, the function fails
C20_FallbackOnValidationFailure ==
    (probe.op \in EvaluationCalls /\ probe.first \in ValidationFailures) =>
        /\ probe.secondRequests = 1
        /\ (probe.second # Null /\ probe.second # Resolved("object"))
              => probe.phase \in {"thrown", "sleeping"}

\* C21: when, in the run that completes the job, one scoring call was
\* answered by the fallback model after an unparsable primary output, the
\* job is completed with the result built from that answer, and the job's
\* metadata retry_count is 1, not its initial 0.
C21_RetryCountReflectsEscalation ==
    (pc.step = "returned" /\ escalations = 1) =>
        /\ job.status = "completed"
        /\ job.result = CombineResults(cvResult, projectResult, summary.text)
        /\ job.metadata.retry_count = 1

\* rate limit, timeout, transient 5xx
TransientError(error) ==
    \/ error.status \in {429, 500, 503}
    \/ error.code = "ETIMEDOUT"
    \/ Includes(error.message, "timeout")

\* a provider's response or rejection that is a transient provider error
TransientOutcome(outcome) ==
    IF outcome.responded
    THEN outcome.status \in {429, 500, 503}
    ELSE TransientError(outcome.error)

\* C22: when a transient provider error (rate limit, timeout, transient
\* 5xx) of a Generation Client or Retrieval Client call (generation,
\* embedding, vector query) has failed the run, that call was retried at
\* its call site and its retries were exhausted.
C22_TransientErrorsRetried ==
    pc.step \in {"catch", "aborted"} =>
        /\ (gen.phase = "thrown" /\ TransientError(err)) => gen.attempt = MaxRetries
        /\ \A step \in QuerySteps :
              (/\ retrieved[step] # Null
               /\ retrieved[step].failure # Null
               /\ TransientOutcome(retrieved[step].failure.cause))
              => IF retrieved[step].failure.site = "embedText"
                 THEN retrieved[step].failure.attempts = MaxEmbedRetries
                 ELSE retrieved[step].failure.attempts > 1

\* C23: for all integer scores s1..s4 in 1..5 returned by the CV scoring
\* call, cv_match_rate = (0.40*s1 + 0.25*s2 + 0.20*s3 + 0.15*s4) / 5 (in
\* hundredths: 5 * rate = 40*s1 + 25*s2 + 20*s3 + 15*s4), and it lies in
\* [0.2, 1.0].
C23_CvMatchRate ==
    probe.op = "evaluateCV" =>
        /\ 5 * probe.result.cv_match_rate
              = 40 * probe.scores[1] + 25 * probe.scores[2]
                + 20 * probe.scores[3] + 15 * probe.scores[4]
        /\ probe.result.cv_match_rate \in 20..100

\* C23 witness: the scores 5, 4, 3, 2 give the match rate 0.78.
C23_Witness ==
    /\ probe.op = "evaluateCV"
    /\ probe.scores = <<5, 4, 3, 2>>
    /\ probe.result.cv_match_rate = 78

\* C24: for all integer scores s1..s5 in 1..5 returned by the project
\* scoring call, project_score = 0.30*s1 + 0.25*s2 + 0.20*s3 + 0.15*s4 +
\* 0.10*s5 with no normalisation, and it lies in [1, 5].
C24_ProjectScore ==
    probe.op = "evaluateProject" =>
        /\ probe.result.project_score
              = 30 * probe.scores[1] + 25 * probe.scores[2] + 20 * probe.scores[3]
                + 15 * probe.scores[4] + 10 * probe.scores[5]
        /\ probe.result.project_score \in 100..500

\* C24 witness: the scores 5, 5, 4, 3, 2 give the project score 4.20.
C24_Witness ==
    /\ probe.op = "evaluateProject"
    /\ probe.scores = <<5, 5, 4, 3, 2>>
    /\ probe.result.project_score = 420

\* the sum of a field over the entries of a breakdown
RECURSIVE SumOver(_, _, _)
SumOver(breakdown, keys, field) ==
    IF keys = {} THEN 0
    ELSE LET k == CHOOSE x \in keys : TRUE
         IN  breakdown[k][field] + SumOver(breakdown, keys \ {k}, field)

\* the entries of a breakdown are consistent: weighted_score = score *
\* weight, the weights sum to 1.0, the scores are those of the evaluation
BreakdownConsistent(breakdown, evaluation) ==
    /\ \A c \in DOMAIN breakdown :
          /\ breakdown[c].score = evaluation[c].score
          /\ breakdown[c].weighted_score = breakdown[c].score * breakdown[c].weight
    /\ SumOver(breakdown, DOMAIN breakdown, "weight") = 100

\* C25: in every scoring result, each criterion entry of the CV and of the
\* project breakdown has weighted_score = score * weight, the weights of
\* each breakdown sum to 1.0, and the composite equals the sum of the
\* breakdown's weighted_score values (divided by 5 on the CV side).
C25_BreakdownConsistent ==
    /\ probe.op = "evaluateCV" =>
          /\ DOMAIN probe.result.cv_scoring_breakdown = DOMAIN CVWeights
          /\ BreakdownConsistent(probe.result.cv_scoring_breakdown, probe.evaluation)
          /\ 5 * probe.result.cv_match_rate
                = SumOver(probe.result.cv_scoring_breakdown, DOMAIN CVWeights,
                          "weighted_score")
    /\ probe.op = "evaluateProject" =>
          /\ DOMAIN probe.result.project_scoring_breakdown = DOMAIN ProjectWeights
          /\ BreakdownConsistent(probe.result.project_scoring_breakdown, probe.evaluation)
          /\ probe.result.project_score
                = SumOver(probe.result.project_scoring_breakdown, DOMAIN ProjectWeights,
                          "weighted_score")

\* C25 witness: a project result whose five entries all differ.
C25_Witness ==
    /\ probe.op = "evaluateProject"
    /\ probe.scores = <<1, 2, 3, 4, 5>>
    /\ probe.result.project_scoring_breakdown.creativity.weighted_score = 50
    /\ probe.result.project_scoring_breakdown.correctness.weighted_score = 30
    /\ probe.result.project_score = 250

\* C26: the result committed with status completed carries, for the CV
\* side and for the project side alike, the composite score, the scoring
\* breakdown, the feedback string and the recommendation string produced
\* by the scoring stage, plus overall_summary.
C26_ResultCarriesScoring ==
    pc.step = "returned" =>
        /\ job.status = "completed"
        /\ job.result.cv_match_rate = cvResult.cv_match_rate
        /\ job.result.cv_scoring_breakdown = cvResult.cv_scoring_breakdown
        /\ job.result.cv_feedback = cvResult.cv_feedback
        /\ job.result.project_score = projectResult.project_score
        /\ job.result.project_scoring_breakdown = projectResult.project_scoring_breakdown
        /\ job.result.project_feedback = projectResult.project_feedback
        /\ job.result.overall_summary = summary.text
        /\ "cv_recommendation" \in DOMAIN job.result
        /\ "project_recommendation" \in DOMAIN job.result
        /\ job.result.cv_recommendation = cvResult.cv_recommendation
        /\ job.result.project_recommendation = projectResult.project_recommendation

\* C27: for every job state, get-status returns a result only when the
\* status is completed and an error only when the status is failed, and
\* the job view is marked resubmittable (retry_possible) exactly when the
\* job is failed.
C27_ViewMatchesStatus ==
    /\ getResult(job).result # Null => job.status = "completed"
    /\ getResult(job).error # Null => job.status = "failed"
    /\ getResult(job).retry_possible <=> job.status = "failed"

\* C27 witness: the view of a job that failed in the project evaluation
\* stage shows the error and no result, and is marked resubmittable.
C27_Witness ==
    /\ job.status = "failed"
    /\ pc.stage = "project_evaluation"
    /\ getResult(job).error = job.error
    /\ getResult(job).error # Null
    /\ getResult(job).result = Null
    /\ getResult(job).retry_possible

\* C28: every failed job's error record carries a code, a message and a
\* stage, whatever error caused the failure, errors without a code or
\* without a message of their own included: the error's own code and
\* message when it has them, 'UNKNOWN_ERROR' and 'Unknown error occurred'
\* when it has not.
C28_ErrorRecordComplete ==
    probe.op = "failJob" =>
        /\ probe.after.status = "failed"
        /\ probe.after.error # Null
        /\ probe.after.error.code # ""
        /\ probe.after.error.message # <<>>
        /\ probe.after.error.stage \in {"cv_evaluation", "project_evaluation", "unknown"}
        /\ probe.after.error.code
              = (IF probe.error.code # "" THEN probe.error.code ELSE "UNKNOWN_ERROR")
        /\ probe.after.error.message
              = (IF probe.error.message # <<>> THEN probe.error.message
                 ELSE <<"Unknown error occurred">>)

\* C28 witness: an error with neither code nor message fails the job during
\* synthesis.
C28_Witness ==
    /\ probe.op = "failJob"
    /\ probe.error = BareError
    /\ probe.stage = "synthesis"
    /\ probe.after.status = "failed"
    /\ probe.after.error.code = "UNKNOWN_ERROR"
    /\ probe.after.error.message = <<"Unknown error occurred">>
    /\ probe.after.error.stage = "unknown"

\* the runs of the parsing stages are being followed
DocumentsFollowed == probe # NoProbe /\ probe.op = "evaluate" /\ "docs" \in DOMAIN probe

\* C29: a parsing stage calls text extraction only when the Document
\* holds no extracted text, a run that has extracted goes on to detection
\* only with the text stored on the Document, and over the evaluations of
\* a document extraction succeeds at most once.
C29_ExtractOnceThenCache ==
    /\ [](DocumentsFollowed =>
            /\ \A s \in Sides : probe.docs[s].extractions <= 1
            /\ \A k \in JobIds :
                  probe.run[k].step \in {"detectInjectionWithAI", "structure"}
                     => probe.docs[ParsedSide(probe.run[k].stage)].cached)
    /\ [][DocumentsFollowed =>
            \A s \in Sides :
               probe'.docs[s].extractions # probe.docs[s].extractions
                  => ~probe.docs[s].cached]_vars

\* an attempt that ended with a timeout or a network error
TimeoutOrNetwork(outcome) ==
    outcome \in {Rejected(AbortTimeoutError), Rejected(FetchFailedError),
                 Rejected(ConnectTimeoutError)}

\* C30: embed makes at most 3 attempts; every attempt before the last one
\* made ended with a timeout or network error and was followed by a wait
\* of attempt * 2 s (2 s after the first, 4 s after the second); the first
\* successful attempt returns; the error of the third failed attempt is
\* raised with no further wait; and any other error is raised at once,
\* after a single attempt when it is the first.
C30_EmbedRetries ==
    probe.op = "embedText" =>
        LET n == probe.result.attempts IN
        /\ n \in 1..3
        /\ probe.result.delays = [i \in 1..(n - 1) |-> i * 2000]
        /\ \A i \in 1..(n - 1) : TimeoutOrNetwork(probe.script[i])
        /\ probe.result.error = Null => probe.script[n] = EmbedOk
        /\ probe.result.error # Null =>
              /\ probe.script[n] # EmbedOk
              /\ n = 3 \/ ~TimeoutOrNetwork(probe.script[n])
              /\ probe.script[n].responded
                    => probe.result.error.message
                         = <<"Embedding API error:">> \o probe.script[n].body
              /\ ~probe.script[n].responded => probe.result.error = probe.script[n].error
        /\ (probe.script[1] # EmbedOk /\ ~TimeoutOrNetwork(probe.script[1]))
              => (n = 1 /\ probe.result.delays = <<>> /\ probe.result.error # Null)

\* C30 witness: a timeout, then a failed connection, then a third failure:
\* its error is raised after waits of 2 s and 4 s.
C30_Witness ==
    /\ probe.op = "embedText"
    /\ probe.script = <<Rejected(AbortTimeoutError), Rejected(FetchFailedError),
                        Rejected(ConnectTimeoutError)>>
    /\ probe.result.attempts = 3
    /\ probe.result.delays = <<2000, 4000>>
    /\ probe.result.error = ConnectTimeoutError

\* C31: with several jobs processed at the same time by different workers,
\* every Job Store write made while processing one job (progress commit,
\* completion, failure) changes the record of that job only: the record of
\* every other job, its status, progress, result and error included, is
\* the same after the write as before it, in every interleaving.
C31_WritesOnlyOwnRecord ==
    [][(probe.op = "evaluate" /\ probe'.op = "evaluate") =>
          \A k \in JobIds : k # probe'.last.job => probe'.store[k] = probe.store[k]]_vars

\* C31 witness: the failure of one job has just been written while a second
\* job is half way through its stages.
C31_Witness ==
    /\ probe.op = "evaluate"
    /\ probe.last = [by |-> "failJob", job |-> "eval_job_1"]
    /\ \A k \in JobIds : probe.store[k] # Absent
    /\ probe.store["eval_job_1"].status = "failed"
    /\ probe.store["eval_job_2"].status = "processing"
    /\ probe.store["eval_job_2"].progress_percentage = 50
    /\ probe.store["eval_job_2"].error = Null
    /\ probe.store["eval_job_2"].result = Null

\* C32: create-job is ordered. The job record is written only after both
\* referenced documents were looked up and found, it is written with
\* status queued and progress 0, and the descriptor is enqueued only after
\* the record is written: a queue entry, and so a worker run, exists only
\* for a job that has a record. A request naming a missing document
\* creates no record and enqueues nothing.
C32_CreateJobOrdered ==
    probe.op = "evaluate" =>
        \A k \in JobIds :
            /\ probe.store[k] # Absent => probe.request[k].lookups = <<TRUE, TRUE>>
            /\ (probe.store[k] # Absent /\ probe.entries[k] = "none"
                    /\ probe.request[k].step = "add") =>
                  /\ probe.store[k].status = "queued"
                  /\ probe.store[k].progress_percentage = 0
            /\ probe.entries[k] # "none" => probe.store[k] # Absent
            /\ probe.run[k].step # "idle" =>
                  probe.store[k] # Absent /\ probe.entries[k] # "none"
            /\ (\E i \in 1..Len(probe.request[k].lookups) : ~probe.request[k].lookups[i]) =>
                  /\ probe.store[k] = Absent
                  /\ probe.entries[k] = "none"
                  /\ probe.request[k].step = "rejected"

\* C32 witness: one request was rejected because its project document is
\* missing and left nothing behind, while the job of the other request,
\* accepted, is being processed by a worker.
C32_Witness ==
    /\ probe.op = "evaluate"
    /\ probe.request["eval_job_1"].lookups = <<TRUE, FALSE>>
    /\ probe.request["eval_job_1"].error = NotFoundError
    /\ probe.store["eval_job_1"] = Absent
    /\ probe.entries["eval_job_1"] = "none"
    /\ probe.request["eval_job_2"].step = "accepted"
    /\ probe.run["eval_job_2"].step = "work"

\* C39: once the create-job request has ended, a job record in status
\* queued has a queue entry that delivers it to a worker: when enqueueing
\* fails after the record was saved, no queued record is left behind in
\* the Job Store.
C39_QueuedHasEntry ==
    probe.op = "evaluate" =>
        \A k \in JobIds :
            (/\ probe.request[k].step \in {"accepted", "rejected"}
             /\ probe.store[k] # Absent
             /\ probe.store[k].status = "queued") =>
                probe.entries[k] \in {"waiting", "active"}

\* C33: in each of the three screening contexts (uploaded file, outbound
\* prompt, model response), when the screener's provider call fails, or
\* screening is disabled or not configured, screen returns blocked = false
\* with no reasons and raises nothing, so the caller's test of the result
\* does not abort the job.
C33_ScreenerFailsOpen ==
    probe.op = "screen" =>
        ((probe.outcome = ScreenerFailure \/ ~probe.config.enabled
            \/ ~probe.config.templateId \/ ~probe.config.client) =>
              /\ probe.result.blocked = FALSE
              /\ probe.result.reasons = <<>>
              /\ ~IsBlocked(probe.result))

\* C33 witness: the service is enabled and configured, the model response
\* to screen is not blank, the sanitize request fails, and the result is
\* not blocked.
C33_Witness ==
    /\ probe.op = "screen"
    /\ probe.context = "response"
    /\ probe.config = [enabled |-> TRUE, templateId |-> TRUE, client |-> TRUE]
    /\ probe.text = <<"x">>
    /\ probe.outcome = ScreenerFailure
    /\ probe.result = NoVerdict

\* C34: one schema-validated generation call makes at most 6 model
\* requests, at most 3 outer attempts of at most a first and a second
\* request each, and sleeps at most 2 backoffs; the outer loop runs the
\* sequence again only after it ended with an error classified retryable,
\* so a second request that fails schema validation (no object, or "No
\* object generated") ends the call with no further outer attempt.
C34_RequestBudget ==
    probe.op \in ObjectCalls =>
        /\ probe.attempt <= 3
        /\ probe.requests <= 6
        /\ probe.requests <= 2 * probe.attempt
        /\ probe.sleeps <= 2
        /\ probe.sleeps = probe.attempt - 1
        /\ probe.phase = "sleeping" => ClassifiedRetryable(probe.result)
        /\ probe.second \in ValidationFailures => probe.phase = "thrown"

\* C34 witness: three outer attempts of two requests each, two sleeps, and
\* the call has ended.
C34_Witness ==
    /\ probe.op \in ObjectCalls
    /\ probe.attempt = 3
    /\ probe.requests = 6
    /\ probe.sleeps = 2
    /\ probe.phase \in {"returned", "thrown"}

\* C35: a detector verdict with detected = false never blocks and never
\* aborts the job, under the CV profile and under the project profile,
\* whatever its severity and confidence are (severity critical with
\* confidence 0.9 included): the parsing stage goes on to structuring.
C35_NotDetectedNeverBlocks ==
    \A side \in Sides :
        (/\ pc.stage = ParsingStage(side)
         /\ detection # Null
         /\ ~detection.detected
         /\ pc.step # "handleDetection")
        => /\ pc.step \notin {"catch", "aborted"}
           /\ err = Null

\* C35 witness: the verdict on the CV is detected = false with severity
\* critical and confidence 0.9, and the stage has gone on to structuring.
C35_Witness ==
    /\ pc = [stage |-> "cv_parsing", step |-> "structure"]
    /\ detection # Null
    /\ ~detection.detected
    /\ detection.severity = "critical"
    /\ detection.confidence = 90
    /\ err = Null

\* C36: the project score handed to the synthesis prompt is the job's
\* project_score on its 0-5 scale: for all project scores it lies in
\* [1, 5] and equals the project_score stored in the result.
C36_PromptProjectScore ==
    probe.op = "synthesizeResults" =>
        /\ probe.prompt.projectScore = probe.result.project_score
        /\ probe.prompt.projectScore \in 100..500

\* C37: failing a job changes only its status and error. The failed job
\* keeps the progress_percentage and current_stage committed for the stage
\* that was running, keeps its started_at and has no completed_at; and
\* completed_at is set exactly for the jobs whose status is completed.
C37_FailureKeepsProgress ==
    /\ [](job.completed_at # Unset <=> job.status = "completed")
    /\ [][(job'.status = "failed" /\ job.status # "failed") =>
            /\ job' = [job EXCEPT !.status = "failed", !.error = job'.error]
            /\ job'.current_stage = StageLabel(pc.stage)
            /\ job'.progress_percentage = StageProgress(pc.stage)
            /\ job'.started_at # Unset
            /\ job'.completed_at = Unset]_vars

\* C37 witness: a job failed in project_evaluation shows the progress 65
\* and the label of that stage, its start date and no completion date.
C37_Witness ==
    /\ pc = [stage |-> "project_evaluation", step |-> "aborted"]
    /\ job.status = "failed"
    /\ job.error # Null
    /\ job.progress_percentage = 65
    /\ job.current_stage = "project_evaluation"
    /\ job.started_at # Unset
    /\ job.completed_at = Unset

\* C38: whenever the error record of a failed job names a stage other than
\* 'unknown', that stage is the one the job was in when it failed: it
\* equals the job's current_stage at the moment of the failure.
C38_ErrorStageIsCurrentStage ==
    (pc.step = "aborted" /\ job.status = "failed" /\ job.error.stage # "unknown")
        => job.error.stage = job.current_stage

\* the chunks are runs of the words, in order and without a gap: the first
\* starts at the first word, each next one starts no later than the word
\* after the end of the one before it and ends later, the last ends at
\* the last word
CoversInOrder(chunks, words) ==
    \E end \in [1..Len(chunks) -> 1..Len(words)] :
        /\ end[Len(chunks)] = Len(words)
        /\ \A i \in 1..Len(chunks) :
              LET start == end[i] - Len(chunks[i].content) + 1 IN
              /\ start >= 1
              /\ chunks[i].content = SubSeq(words, start, end[i])
              /\ IF i = 1 THEN start = 1
                 ELSE start <= end[i - 1] + 1 /\ end[i] > end[i - 1]

\* C40: for every text and chunkSize, chunkText returns chunks with the
\* consecutive chunk_index 0..n-1 that cover every word of the text in
\* order, and every chunk that holds more than one word is at most
\* chunkSize characters long.
C40_ChunksCoverWithinSize ==
    probe.op = "chunkText" =>
        /\ \A i \in 1..Len(probe.chunks) : probe.chunks[i].chunk_index = i - 1
        /\ CoversInOrder(probe.chunks, probe.words)
        /\ \A i \in 1..Len(probe.chunks) :
              Len(probe.chunks[i].content) > 1
                  => JoinedLength(probe.chunks[i].content) <= probe.chunkSize

====
